---- MODULE Spec2Model ----
(***************************************************************************)
(* Model of the playlist reconciliation engine of playlist-checker:       *)
(* PlaylistChecker.check_all (src/src/app.py) with the catalog writes it   *)
(* drives, YTPlaylist.get_videos (src/src/playlist.py) and the platform    *)
(* API calls of src/src/api.py as the environment.                         *)
(*                                                                         *)
(* One process runs check_all from start to end; a run is one process, so  *)
(* every run starts from a freshly constructed PlaylistChecker.           *)
(*                                                                         *)
(* Spec and SpecUpsert cover the reconciliation loop, SpecStorage the loop *)
(* with a failing catalog write, SpecAfter and SpecPayload the post-action *)
(* threads (run_after), SpecWorkers the loop together with the threads it  *)
(* starts, SpecDrain the wait for those threads at the end of check_all,   *)
(* and SpecDownload the download phase with the catalog columns and files  *)
(* it writes (downloaded_*, force_redownload, extra_video_files).          *)
(* SpecFields is the loop with the required fields of the scripts and      *)
(* SpecNewPlaylist the loop with a configured playlist that has no row.    *)
(* SpecTags follows a call of add_vid_tags with default tags,              *)
(* SpecThumbnails bulk_download_thumbnails                                 *)
(* (src/src/downloaders/thumbnail.py), SpecPaging YTApi.playlist_items and *)
(* SpecLock the lock file of run.py with several instances.                *)
(***************************************************************************)
EXTENDS Integers, FiniteSets, Sequences, TLC

\* ------------------------------------------------------------------------
\* Bounds of the model
\* ------------------------------------------------------------------------
MaxRuns == 3
MaxRemoteChanges == 2
MaxThreads == 6
MaxScripts == 2
MaxDownloadRuns == 2
MaxThumbnails == 6
MaxBulkRuns == 2
MaxPages == 101
MaxInstances == 3

\* ------------------------------------------------------------------------
\* The universe: videos, playlists, channels and tags of the remote platform
\* ------------------------------------------------------------------------
Videos == {"A", "B"}
Playlists == {"P", "Q"}

\* SQL NULL / Python None of a text column and of a timestamp column
NULL == "NULL"
NoTime == -1

\* A fixed order of the video ids, used to number the rows of one multi-row
\* INSERT (ids are only ever compared for equality)
Rank == [v \in Videos |-> IF v = "A" THEN 1 ELSE 2]

\* config.playlists: the configured playlists in list order, their archive
\* flag and whether scripts are configured for them (playlist.after or
\* config.after)
ConfigPlaylists == <<"P", "Q">>
Archive == [p \in Playlists |-> p = "P"]
HasAfter == [p \in Playlists |-> TRUE]

\* str.lower on the tag texts that occur
Lower(t) == CASE t = "Music" -> "music" [] t = "Live" -> "live" [] OTHER -> t

\* The snippet the platform returns for a video that still exists
\* (YTVideo.title, .description, .published_at, .thumbnail, .channel_id, .tags)
RemoteVideo(v) ==
    [title |-> "title", description |-> "desc", published_at |-> 0,
     thumbnail |-> "thumb",
     channel_id |-> IF v = "A" THEN "ch1" ELSE "ch2",
     tags |-> IF v = "A" THEN {"Music", "Live"} ELSE {}]

\* The snippet the platform returns for a channel (YTChannel.name, .thumbnail)
RemoteChannel(c) == [name |-> "name", thumbnail |-> "cthumb"]

EmptyMap == [x \in {} |-> 0]

\* dict.update
DictUpdate(f, g) == [x \in DOMAIN f \cup DOMAIN g |-> IF x \in DOMAIN g THEN g[x] ELSE f[x]]

VARIABLES
    \* remote platform
    listing,            \* playlist id -> set of video ids in the playlist
    avail,              \* video ids the detail lookup returns
    \* catalog store
    playlists,          \* playlists table: playlist_id -> [id, name]
    videos,             \* videos table: video_id -> row
    playlistVideos,     \* join rows <<playlist db id, video db id>>
    tags,               \* tags table: tag -> id
    videoTags,          \* join rows <<tag id, video db id>>
    channels,           \* channels table: channel_id -> row
    channelVideos,      \* join rows <<channel db id, video db id>>
    \* PlaylistChecker fields
    already_checked, all_vids, all_vid_ids, channel_cache, db_channel_cache,
    all_tags, threads,
    \* check_all locals
    pc, idx, checked_playlists, old, all_items, retval, items, deleted,
    checked_items, new_deleted, vid_ids,
    \* clock and history
    now,                \* time of the current run
    changes,            \* remote changes so far
    snap,               \* catalog at the end of the last run that checked every playlist
    prior,              \* playlistVideos as it was when the current run started
    reconciled,         \* current and deleted videos of the playlists reconciled in this run
    nd_count,           \* payloads that listed the video in new_deleted since it vanished
    \* arguments of a direct call of add_and_update_vids / add_channels
    in_videos, in_channels,
    \* the exception that ended the run
    error,
    \* the connection to the store
    committed,          \* the tables as of the last commit
    in_transaction,     \* a transaction is in progress on the connection
    \* run_after threads
    after,              \* thread -> the scripts it was given, each by how it behaves
    after_pos,          \* thread -> index in cmds of the script its loop is at
    thread_state,       \* thread -> "running", "waiting", "returned" or "raised"
    attempted,          \* <<thread, index>> of the scripts the loop got to
    started,            \* <<thread, index>> of the scripts whose process was started
    required_fields,    \* thread -> required_fields of each of its scripts
    stdin,              \* what was written to the stdin of the started processes
    \* waiting for the threads at the end of check_all
    finish_at,          \* thread -> seconds after the wait began at which it ends
    clock,              \* seconds since the wait began
    join_i,             \* index of the thread joined next
    exit_path,          \* "none", "returned" or "exit" (the forced exit)
    \* download phase
    config,             \* max_downloads_per_run, s3_archive, delete_old_info, delete_old_thumbnail
    s3_up,              \* whether uploads to the bucket succeed
    downloads,          \* the counter of the download loop
    cursor,             \* rows of iter_videos_to_download not yet iterated
    handed,             \* calls of download_video so far, each with its result
    extra_video_files,  \* extra_video_files table: video db id -> row
    files,              \* local paths that exist
    removed,            \* paths delete_old_file passed to os.remove
    delete_files,       \* object names collected for deletion from the bucket
    \* operations modelled on their own
    in_default_tags,    \* default_tags argument of a direct call of add_vid_tags
    info_queries,       \* playlists for which get_deleted_info ran its SELECT
    \* bulk_download_thumbnails
    thumbnail_files,    \* videos whose file data/<site>/<video_id>.jpg exists
    no_url,             \* the video whose thumbnail url is missing, 0 when none
    bulk_run,           \* calls of bulk_download_thumbnails so far
    bulk_pos,           \* index in videos of the video the loop is at
    bulk_i,             \* the counter i of the loop
    bulk_res,           \* what the last download_thumbnail returned
    request,            \* the request of the last download_thumbnail: "none", "ok", "failed"
    unslept,            \* requests made since the last sleep of the call
    \* YTApi.playlist_items
    remote_pages,       \* pages the platform has for the playlist
    max_results,        \* max_results of the loop
    page_token,         \* number of the page page_token stands for, 0 for None
    api_items,          \* len(all_items)
    api_ret,            \* "pending", "None", or "js" once the listing was returned
    \* the lock file of run.py
    platform,           \* "posix" or "windows"
    lock_path,          \* the file named .lock, 0 when there is none
    inodes,             \* files created so far
    flock,              \* file -> the instance that holds the lock on it, 0 for none
    lock_fd,            \* instance -> the file its FileLock has open, 0 for none
    lpc                 \* instance -> the step of run.py it is at

\* State of the phases of check_all that follow the loop over the playlists
after_vars == <<after, after_pos, thread_state, attempted, started, required_fields, stdin>>
drain_vars == <<finish_at, clock, join_i, exit_path>>
download_vars == <<config, s3_up, downloads, cursor, handed, extra_video_files, files,
                   removed, delete_files>>
thumbnail_vars == <<thumbnail_files, no_url, bulk_run, bulk_pos, bulk_i, bulk_res, request,
                    unslept>>
paging_vars == <<remote_pages, max_results, page_token, api_items, api_ret>>
lock_vars == <<platform, lock_path, inodes, flock, lock_fd, lpc>>
unit_vars == <<thumbnail_vars, paging_vars, lock_vars>>
other_vars == <<in_default_tags, info_queries, unit_vars>>
phases == <<after_vars, drain_vars, download_vars, other_vars>>

\* No thread was started and the wait has not begun
AfterIdle ==
    /\ after = <<>>
    /\ after_pos = <<>>
    /\ thread_state = <<>>
    /\ attempted = {}
    /\ started = {}
    /\ required_fields = <<>>
    /\ stdin = {}

DrainIdle ==
    /\ finish_at = <<>>
    /\ clock = 0
    /\ join_i = 1
    /\ exit_path = "none"

\* The configuration with its defaults, no download made
DownloadIdle ==
    /\ config = [max_downloads_per_run |-> -1, s3_archive |-> FALSE,
                 delete_old_info |-> TRUE, delete_old_thumbnail |-> TRUE]
    /\ s3_up = TRUE
    /\ downloads = 0
    /\ cursor = <<>>
    /\ handed = <<>>
    /\ extra_video_files = EmptyMap
    /\ files = {}
    /\ removed = <<>>
    /\ delete_files = <<>>

\* No operation was called on its own
OtherIdle ==
    /\ in_default_tags = {}
    /\ info_queries = {}
    /\ thumbnail_files = {}
    /\ no_url = 0
    /\ bulk_run = 0
    /\ bulk_pos = 0
    /\ bulk_i = 0
    /\ bulk_res = "None"
    /\ request = "none"
    /\ unslept = 0
    /\ remote_pages = 1
    /\ max_results = 0
    /\ page_token = 0
    /\ api_items = 0
    /\ api_ret = "pending"
    /\ platform = "posix"
    /\ lock_path = 0
    /\ inodes = 0
    /\ flock = <<>>
    /\ lock_fd = <<>>
    /\ lpc = <<>>

PhasesIdle == AfterIdle /\ DrainIdle /\ DownloadIdle /\ OtherIdle

remote == <<listing, avail>>
db == <<playlists, videos, playlistVideos, tags, videoTags, channels, channelVideos>>
caches == <<already_checked, all_vids, all_vid_ids, channel_cache, db_channel_cache, all_tags>>
locals == <<old, all_items, retval, items, deleted, checked_items, new_deleted, vid_ids>>
vars == <<listing, avail, playlists, videos, playlistVideos, tags, videoTags,
          channels, channelVideos, already_checked, all_vids, all_vid_ids,
          channel_cache, db_channel_cache, all_tags, threads, pc, idx,
          checked_playlists, old, all_items, retval, items, deleted,
          checked_items, new_deleted, vid_ids, now, changes, snap, prior, reconciled,
          nd_count, in_videos, in_channels, error, committed, in_transaction, phases>>
history == <<prior, reconciled, in_videos, in_channels>>
txn == <<committed, in_transaction>>

\* ------------------------------------------------------------------------
\* SQL expressions
\* ------------------------------------------------------------------------
\* a != b of SQL on text: true only when both sides are non-null and differ
SqlNe(a, b) == a # NULL /\ b # NULL /\ a # b
\* a >= b of SQL on timestamps: true only when both sides are non-null
SqlGe(a, b) == a # NoTime /\ b # NoTime /\ a >= b
\* COALESCE(a, b)
Coalesce(a, b) == IF a # NULL THEN a ELSE b

\* Position of v among the rows of one INSERT
Position(v, batch) == Cardinality({w \in batch : Rank[w] <= Rank[v]})

\* INSERT ... ON CONFLICT DO NOTHING into a join table whose compound key is
\* unique; a plain INSERT raises on a conflicting row instead
insert_plain(table, rows) ==
    IF rows \cap table # {} THEN [err |-> TRUE, rows |-> table]
    ELSE [err |-> FALSE, rows |-> table \cup rows]
insert_on_conflict_do_nothing(table, rows) ==
    [err |-> FALSE, rows |-> table \cup {r \in rows : r \notin table}]

\* ------------------------------------------------------------------------
\* YTPlaylist.get_videos
\* ------------------------------------------------------------------------
get_deleted_keeps_checked(new, old_, checked_vids) == old_ \ new
get_deleted(new, old_, checked_vids) == (old_ \ new) \ checked_vids

\* The ids sent to the detail lookup: membership ids not already checked
RequestedItems_all(membership, checked) == membership
RequestedItems(membership, checked) == membership \ checked

\* The three sets get_videos returns once both requests succeeded; detail is
\* the set of ids in the detail response
get_videos(membership, detail, checked) ==
    LET checked_ == membership \cap checked
        deleted_ == get_deleted(detail, membership, checked_)
    IN  [items |-> detail \ deleted_, deleted |-> deleted_, checked_items |-> checked_]

\* ------------------------------------------------------------------------
\* Catalog writes and reads of PlaylistChecker
\* ------------------------------------------------------------------------
\* Row of the INSERT of add_and_update_vids; the other columns take their
\* defaults
NewVideoRow(d, id) ==
    [id |-> id, title |-> d.title, description |-> d.description,
     published_at |-> d.published_at, thumbnail |-> d.thumbnail,
     deleted |-> FALSE, deleted_at |-> NoTime, download |-> FALSE]

\* SET clause of the UPDATE of add_and_update_vids, c the incoming values
UpdatedVideoRow_overwrites(v, c) ==
    [v EXCEPT
       !.title = c.title,
       !.description = c.description,
       !.deleted = FALSE,
       !.thumbnail = c.thumbnail,
       !.published_at = IF SqlGe(c.published_at, v.published_at) THEN v.published_at ELSE c.published_at]
UpdatedVideoRow(v, c) ==
    [v EXCEPT
       !.title = IF SqlNe(v.title, c.title) THEN c.title ELSE v.title,
       !.description = IF SqlNe(v.description, c.description) THEN c.description ELSE v.description,
       !.deleted = FALSE,
       !.thumbnail = Coalesce(c.thumbnail, v.thumbnail),
       !.published_at = IF SqlGe(c.published_at, v.published_at) THEN v.published_at ELSE c.published_at]

\* add_and_update_vids: vids the ids given, data their snippet values,
\* known the id cache all_vid_ids.  err: the INSERT hit the unique
\* (site, video_id) constraint and the transaction was rolled back
add_and_update_vids_inserts_all(table, known, vids, data) ==
    LET do_insert == vids
        n == Cardinality(DOMAIN table)
    IN  IF do_insert \cap DOMAIN table # {} THEN [err |-> TRUE, videos |-> table]
        ELSE [err |-> FALSE,
              videos |-> [v \in DOMAIN table \cup do_insert |->
                  IF v \in do_insert THEN NewVideoRow(data[v], n + Position(v, do_insert))
                  ELSE table[v]]]
add_and_update_vids(table, known, vids, data) ==
    LET do_insert == vids \ known
        do_update == vids \ do_insert
        n == Cardinality(DOMAIN table)
    IN  IF do_insert \cap DOMAIN table # {} THEN [err |-> TRUE, videos |-> table]
        ELSE [err |-> FALSE,
              videos |-> [v \in DOMAIN table \cup do_insert |->
                  IF v \in do_insert THEN NewVideoRow(data[v], n + Position(v, do_insert))
                  ELSE IF v \in do_update THEN UpdatedVideoRow(table[v], data[v])
                  ELSE table[v]]]

\* Row of the INSERT of add_deleted_vids at time t
TombstoneRow(id, t) ==
    [id |-> id, title |-> "Deleted video", description |-> NULL,
     published_at |-> t, thumbnail |-> NULL,
     deleted |-> TRUE, deleted_at |-> t, download |-> FALSE]

\* SET clause of the UPDATE of add_deleted_vids at time t
DeletedVideoRow_always_now(v, t) ==
    [v EXCEPT !.deleted_at = t, !.deleted = TRUE]
DeletedVideoRow_keeps_flag(v, t) ==
    [v EXCEPT !.deleted_at = IF v.deleted = FALSE THEN t ELSE v.deleted_at]
DeletedVideoRow(v, t) ==
    [v EXCEPT !.deleted_at = IF v.deleted = FALSE THEN t ELSE v.deleted_at,
              !.deleted = TRUE]

add_deleted_vids(table, known, vids, t) ==
    LET do_insert == vids \ known
        do_update == vids \ do_insert
        n == Cardinality(DOMAIN table)
    IN  IF do_insert \cap DOMAIN table # {} THEN [err |-> TRUE, videos |-> table]
        ELSE [err |-> FALSE,
              videos |-> [v \in DOMAIN table \cup do_insert |->
                  IF v \in do_insert THEN TombstoneRow(n + Position(v, do_insert), t)
                  ELSE IF v \in do_update THEN DeletedVideoRow(table[v], t)
                  ELSE table[v]]]

\* get_new_deleted: the given deleted videos whose row has deleted IS FALSE
get_new_deleted_any_row(table, deleted_) ==
    {v \in deleted_ : v \in DOMAIN table}
get_new_deleted_any_video(table, deleted_) ==
    {v \in DOMAIN table : table[v].deleted = FALSE}
get_new_deleted(table, deleted_) ==
    {v \in deleted_ : v \in DOMAIN table /\ table[v].deleted = FALSE}

\* get_vid_ids: {video_id: database id} of the given ids that have a row
get_vid_ids(table, ids) == [v \in ids \cap DOMAIN table |-> table[v].id]

\* get_playlist_video_ids: video db ids joined to the playlist
get_playlist_video_ids(pv, playlist_id) == {r[2] : r \in {q \in pv : q[1] = playlist_id}}

\* update_removed_playlist_videos:
\* DELETE FROM playlistvideos WHERE playlist_id=.. AND NOT video_id=ANY(..)
update_removed_any_playlist(pv, playlist_id, video_ids) ==
    {r \in pv : r[2] \in video_ids}
update_removed_playlist_videos(pv, playlist_id, video_ids) ==
    {r \in pv : ~(r[1] = playlist_id /\ r[2] \notin video_ids)}

\* add_playlist_vids
add_playlist_vids(pv, playlist_id, video_ids) ==
    insert_on_conflict_do_nothing(pv, {<<playlist_id, i>> : i \in video_ids})

\* update_archived_playlist_videos
update_archived_skips_deleted(table, pv, playlist_id) ==
    [v \in DOMAIN table |->
        IF <<playlist_id, table[v].id>> \in pv /\ table[v].download = FALSE
           /\ table[v].deleted = FALSE
        THEN [table[v] EXCEPT !.download = TRUE] ELSE table[v]]
update_archived_playlist_videos(table, pv, playlist_id) ==
    [v \in DOMAIN table |->
        IF <<playlist_id, table[v].id>> \in pv /\ table[v].download = FALSE
        THEN [table[v] EXCEPT !.download = TRUE] ELSE table[v]]

\* Position of tag t among the rows of one INSERT into tags
TagRank(t) == CASE t = "live" -> 1 [] t = "music" -> 2 [] OTHER -> 3
TagPosition(t, batch) == Cardinality({u \in batch : TagRank(u) <= TagRank(t)})

\* add_vid_tags: vids the videos given, data their snippet values, cache the
\* tag cache all_tags, vidmap the id cache all_vids.  Videos without tags
\* are dropped; tags not in the cache are inserted (ON CONFLICT DO NOTHING
\* RETURNING gives back only the rows really inserted) and cached; then every
\* video with a known db id is linked to its lower-cased tags and to the
\* default tags found in the cache
add_vid_tags(tagtable, vt, cache, vidmap, vids, data, default_tags) ==
    LET tagged == {v \in vids : data[v].tags # {}}
        values == default_tags \cup UNION {{Lower(t) : t \in data[v].tags} : v \in tagged}
        tobecached == values \ DOMAIN cache
        inserted == tobecached \ DOMAIN tagtable
        n == Cardinality(DOMAIN tagtable)
        tags_ == [t \in DOMAIN tagtable \cup inserted |->
                    IF t \in inserted THEN n + TagPosition(t, inserted) ELSE tagtable[t]]
        cache_ == DictUpdate(cache, [t \in inserted |-> tags_[t]])
        linked == tagged \cap DOMAIN vidmap
        own == UNION {{<<cache_[Lower(t)], vidmap[v]>> :
                          t \in {u \in data[v].tags : Lower(u) \in DOMAIN cache_}} : v \in linked}
        dflt == UNION {{<<cache_[Lower(t)], vidmap[v]>> :
                          t \in {u \in default_tags : Lower(u) \in DOMAIN cache_}} : v \in linked}
        ins == insert_on_conflict_do_nothing(vt, own \cup dflt)
    IN  [err |-> ins.err, tags |-> tags_, all_tags |-> cache_, videoTags |-> ins.rows]

\* Position of channel c among the rows of one INSERT into channels
ChannelRank(c) == IF c = "ch1" THEN 1 ELSE 2
ChannelPosition(c, batch) == Cardinality({d \in batch : ChannelRank(d) <= ChannelRank(c)})

\* SET clause of the UPDATE of add_channels, v the incoming values
UpdatedChannelRow(c, v) ==
    [c EXCEPT !.name = Coalesce(v.name, c.name),
              !.thumbnail = Coalesce(v.thumbnail, c.thumbnail)]

\* add_channels: chans the channel ids given, data their snippet values,
\* known the cache db_channel_cache
add_channels(table, known, chans, data) ==
    LET do_insert == chans \ known
        do_update == chans \ do_insert
        n == Cardinality(DOMAIN table)
    IN  IF do_insert \cap DOMAIN table # {}
        THEN [err |-> TRUE, channels |-> table, db_channel_cache |-> known]
        ELSE [err |-> FALSE,
              channels |-> [c \in DOMAIN table \cup do_insert |->
                  IF c \in do_insert
                  THEN [id |-> n + ChannelPosition(c, do_insert),
                        name |-> data[c].name, thumbnail |-> data[c].thumbnail]
                  ELSE IF c \in do_update THEN UpdatedChannelRow(table[c], data[c])
                  ELSE table[c]],
              db_channel_cache |-> known \cup do_insert]

\* add_channel_videos: fetched the channels given as objects (added or
\* updated first), cached the channel ids given as strings; every video
\* whose channel has a row and whose db id is cached gets a link
add_channel_videos(table, cv, known, vidmap, vids, vdata, fetched, cdata, cached) ==
    LET added == add_channels(table, known, fetched, cdata)
        channel_ids == [c \in (fetched \cup cached) \cap DOMAIN added.channels |->
                            added.channels[c].id]
        data == {<<channel_ids[vdata[v].channel_id], vidmap[v]>> :
                    v \in {w \in vids : vdata[w].channel_id \in DOMAIN channel_ids
                                         /\ w \in DOMAIN vidmap}}
        ins == insert_on_conflict_do_nothing(cv, data)
    IN  [err |-> added.err \/ ins.err, channels |-> added.channels,
         db_channel_cache |-> added.db_channel_cache, channelVideos |-> ins.rows]

Range(f) == {f[x] : x \in DOMAIN f}

\* ------------------------------------------------------------------------
\* State after construction: an empty catalog that already holds the rows of
\* the configured playlists, and any remote state
\* ------------------------------------------------------------------------
NoSnap == [valid |-> FALSE, db |-> <<>>]

Init ==
    /\ listing \in [Playlists -> SUBSET Videos]
    /\ avail \in SUBSET Videos
    /\ playlists = [p \in Playlists |-> [id |-> IF p = "P" THEN 1 ELSE 2, name |-> p]]
    /\ videos = EmptyMap
    /\ playlistVideos = {}
    /\ tags = EmptyMap
    /\ videoTags = {}
    /\ channels = EmptyMap
    /\ channelVideos = {}
    /\ already_checked = {}
    /\ all_vids = EmptyMap
    /\ all_vid_ids = {}
    /\ channel_cache = {}
    /\ db_channel_cache = {}
    /\ all_tags = EmptyMap
    /\ threads = <<>>
    /\ pc = "idle"
    /\ idx = 1
    /\ checked_playlists = {}
    /\ old = {}
    /\ all_items = {}
    /\ retval = "None"
    /\ items = {}
    /\ deleted = {}
    /\ checked_items = {}
    /\ new_deleted = {}
    /\ vid_ids = EmptyMap
    /\ now = 0
    /\ changes = 0
    /\ snap = NoSnap
    /\ prior = {}
    /\ reconciled = {}
    /\ nd_count = [v \in Videos |-> 0]
    /\ in_videos = EmptyMap
    /\ in_channels = EmptyMap
    /\ error = "none"
    /\ committed = db
    /\ in_transaction = FALSE
    /\ PhasesIdle

\* The playlist of the current loop iteration and its row
playlist_id == ConfigPlaylists[idx]
playlist_row == playlists[playlist_id]

\* Locals of one loop iteration before anything is assigned to them
ResetLocals ==
    /\ old' = {}
    /\ all_items' = {}
    /\ retval' = "None"
    /\ items' = {}
    /\ deleted' = {}
    /\ checked_items' = {}
    /\ new_deleted' = {}
    /\ vid_ids' = EmptyMap

\* The exception leaves check_all: the process ends with the run unfinished
Crash(e) ==
    /\ pc' = "crashed"
    /\ error' = e
    /\ snap' = NoSnap
    /\ ResetLocals

\* ------------------------------------------------------------------------
\* The connection (psycopg.connect without autocommit).  These are the last
\* conjunct of an action, after the tables of the next state are given.
\* ------------------------------------------------------------------------
\* A statement outside of any block: it begins a transaction when none is
\* in progress
execute ==
    /\ in_transaction' = TRUE
    /\ UNCHANGED committed

\* self.conn.commit()
commit ==
    /\ in_transaction' = FALSE
    /\ committed' = db'

\* Leaving `with self.conn.transaction():` without an exception: the block
\* was a transaction of its own when none was in progress at its entry and
\* is committed; otherwise it was a savepoint of the transaction in
\* progress, which stays open
transaction ==
    IF in_transaction THEN UNCHANGED txn ELSE commit

\* self.conn.rollback(): the tables are again as of the last commit
rollback ==
    /\ playlists' = committed[1]
    /\ videos' = committed[2]
    /\ playlistVideos' = committed[3]
    /\ tags' = committed[4]
    /\ videoTags' = committed[5]
    /\ channels' = committed[6]
    /\ channelVideos' = committed[7]

\* An exception leaves `with psycopg.connect(...)`: what is not committed is
\* rolled back (the steps that raise give the tables as they are after
\* that) and the connection is closed
connection_exit ==
    /\ in_transaction' = FALSE
    /\ committed' = db'

\* ------------------------------------------------------------------------
\* The remote platform changes between two runs: a video enters or leaves a
\* playlist, or a video disappears from or comes back to the detail lookup
\* ------------------------------------------------------------------------
RemoteChange ==
    /\ pc \in {"idle", "done", "crashed"}
    /\ changes < MaxRemoteChanges
    /\ changes' = changes + 1
    /\ \/ \E p \in Playlists, v \in Videos :
            /\ listing' = [listing EXCEPT ![p] =
                              IF v \in listing[p] THEN listing[p] \ {v} ELSE listing[p] \cup {v}]
            /\ UNCHANGED <<avail, nd_count>>
       \/ \E v \in Videos :
            /\ avail' = IF v \in avail THEN avail \ {v} ELSE avail \cup {v}
            /\ nd_count' = [nd_count EXCEPT ![v] = 0]
            /\ UNCHANGED listing
    /\ snap' = NoSnap
    /\ UNCHANGED <<db, caches, threads, pc, idx, checked_playlists, locals, now, history>>
    /\ UNCHANGED <<error, phases>>
    /\ UNCHANGED txn

\* ------------------------------------------------------------------------
\* PlaylistChecker() and the head of check_all: fresh caches, loaded from the
\* catalog
\* ------------------------------------------------------------------------
StartRun ==
    /\ pc \in {"idle", "done", "crashed"}
    /\ now < MaxRuns
    /\ now' = now + 1
    /\ already_checked' = {}
    /\ all_vids' = [v \in DOMAIN videos |-> videos[v].id]
    /\ all_vid_ids' = DOMAIN videos
    /\ all_tags' = tags
    /\ db_channel_cache' = DOMAIN channels
    /\ channel_cache' = {}
    /\ threads' = <<>>
    /\ checked_playlists' = {}
    /\ idx' = 1
    /\ pc' = "loop"
    /\ ResetLocals
    /\ prior' = playlistVideos
    /\ reconciled' = {}
    /\ UNCHANGED <<remote, db, changes, snap, nd_count, in_videos, in_channels>>
    /\ error' = "none"
    /\ UNCHANGED phases
    /\ execute

\* Head of the loop over config.playlists: the playlist's row and its join
\* rows as they are before this run's writes
LoopHead ==
    /\ pc = "loop"
    /\ idx <= Len(ConfigPlaylists)
    /\ playlist_id \in DOMAIN playlists
    /\ old' = get_playlist_video_ids(playlistVideos, playlist_row.id)
    /\ pc' = "get_videos"
    /\ UNCHANGED <<remote, db, caches, threads, idx, checked_playlists, all_items,
                   retval, items, deleted, checked_items, new_deleted, vid_ids,
                   now, changes, snap, nd_count, history>>
    /\ UNCHANGED <<error, phases>>
    /\ execute

\* get_videos returned None because playlist_items failed; check_all continues
\* with the next playlist
PlaylistItemsFailed ==
    /\ pc = "get_videos"
    /\ idx' = idx + 1
    /\ pc' = "loop"
    /\ ResetLocals
    /\ UNCHANGED <<remote, db, caches, threads, checked_playlists,
                   now, changes, snap, nd_count, history>>
    /\ UNCHANGED <<error, phases>>
    /\ UNCHANGED txn

\* get_videos returned None because video_info failed (video_info sends no
\* request, and so cannot fail, for an empty id list)
VideoInfoFailed_after_cache_update ==
    /\ pc = "get_videos"
    /\ RequestedItems(listing[playlist_id], already_checked) # {}
    /\ already_checked' = already_checked \cup listing[playlist_id]
    /\ idx' = idx + 1
    /\ pc' = "loop"
    /\ ResetLocals
    /\ UNCHANGED <<remote, db, all_vids, all_vid_ids, channel_cache, db_channel_cache,
                   all_tags, threads, checked_playlists, now, changes, snap, nd_count,
                   history>>
    /\ UNCHANGED <<error, phases>>
    /\ UNCHANGED txn
VideoInfoFailed ==
    /\ pc = "get_videos"
    /\ RequestedItems(listing[playlist_id], already_checked) # {}
    /\ idx' = idx + 1
    /\ pc' = "loop"
    /\ ResetLocals
    /\ UNCHANGED <<remote, db, caches, threads, checked_playlists,
                   now, changes, snap, nd_count, history>>
    /\ UNCHANGED <<error, phases>>
    /\ UNCHANGED txn

\* get_videos returned the three sets
GetVideosOk ==
    /\ pc = "get_videos"
    /\ LET membership == listing[playlist_id]
           detail == RequestedItems(membership, already_checked) \cap avail
           r == get_videos(membership, detail, already_checked)
       IN  /\ all_items' = membership
           /\ items' = r.items
           /\ deleted' = r.deleted
           /\ checked_items' = r.checked_items
    /\ retval' = "ok"
    /\ pc' = "get_new_deleted"
    /\ UNCHANGED <<remote, db, caches, threads, idx, checked_playlists, old,
                   new_deleted, vid_ids, now, changes, snap, nd_count, history>>
    /\ UNCHANGED <<error, phases>>
    /\ UNCHANGED txn

\* new_deleted is read before any write, then the already-checked set grows
GetNewDeleted ==
    /\ pc = "get_new_deleted"
    /\ new_deleted' = get_new_deleted(videos, deleted)
    /\ already_checked' = already_checked \cup items \cup deleted
    /\ pc' = "add_and_update_vids"
    /\ UNCHANGED <<remote, db, all_vids, all_vid_ids, channel_cache, db_channel_cache,
                   all_tags, threads, idx, checked_playlists, old, all_items, retval,
                   items, deleted, checked_items, vid_ids, now, changes, snap, nd_count, history>>
    /\ UNCHANGED <<error, phases>>
    /\ IF deleted # {} THEN execute ELSE UNCHANGED txn

AddAndUpdateVids ==
    /\ pc = "add_and_update_vids"
    /\ LET r == add_and_update_vids(videos, all_vid_ids, items,
                                    [v \in items |-> RemoteVideo(v)])
       IN  IF r.err
           THEN /\ Crash("UniqueViolation")
                /\ UNCHANGED videos
           ELSE /\ videos' = r.videos
                /\ pc' = "get_vid_ids"
                /\ UNCHANGED <<snap, locals, error>>
    /\ UNCHANGED <<remote, playlists, playlistVideos, tags, videoTags, channels,
                   channelVideos, caches, threads, idx, checked_playlists,
                   now, changes, nd_count, history>>
    /\ UNCHANGED phases
    /\ IF pc' = "crashed" THEN connection_exit
       ELSE IF items # {} THEN transaction ELSE UNCHANGED txn

GetVidIds ==
    /\ pc = "get_vid_ids"
    /\ vid_ids' = get_vid_ids(videos, items \cup deleted \cup checked_items)
    /\ all_vids' = DictUpdate(all_vids, vid_ids')
    /\ all_vid_ids' = all_vid_ids \cup DOMAIN vid_ids'
    /\ pc' = "update_removed"
    /\ UNCHANGED <<remote, db, already_checked, channel_cache, db_channel_cache,
                   all_tags, threads, idx, checked_playlists, old, all_items, retval,
                   items, deleted, checked_items, new_deleted, now, changes, snap,
                   nd_count, history>>
    /\ UNCHANGED <<error, phases>>
    /\ execute

UpdateRemovedPlaylistVideos ==
    /\ pc = "update_removed"
    /\ playlistVideos' = update_removed_playlist_videos(playlistVideos, playlist_row.id,
                                                        Range(vid_ids))
    /\ pc' = "add_playlist_vids"
    /\ UNCHANGED <<remote, playlists, videos, tags, videoTags, channels, channelVideos,
                   caches, threads, idx, checked_playlists, locals, now, changes,
                   snap, nd_count, history>>
    /\ UNCHANGED <<error, phases>>
    /\ commit

AddPlaylistVids ==
    /\ pc = "add_playlist_vids"
    /\ LET r == add_playlist_vids(playlistVideos, playlist_row.id, Range(vid_ids))
       IN  IF r.err
           THEN /\ Crash("UniqueViolation")
                /\ UNCHANGED playlistVideos
           ELSE /\ playlistVideos' = r.rows
                /\ pc' = "archive"
                /\ UNCHANGED <<snap, locals, error>>
    /\ UNCHANGED <<remote, playlists, videos, tags, videoTags, channels, channelVideos,
                   caches, threads, idx, checked_playlists, now, changes,
                   nd_count, history>>
    /\ UNCHANGED phases
    /\ IF pc' = "crashed" THEN connection_exit ELSE commit

UpdateArchived ==
    /\ pc = "archive"
    /\ videos' = IF Archive[playlist_id]
                 THEN update_archived_playlist_videos(videos, playlistVideos, playlist_row.id)
                 ELSE videos
    /\ pc' = "add_deleted_vids"
    /\ UNCHANGED <<remote, playlists, playlistVideos, tags, videoTags, channels,
                   channelVideos, caches, threads, idx, checked_playlists, locals,
                   now, changes, snap, nd_count, history>>
    /\ UNCHANGED <<error, phases>>
    /\ IF Archive[playlist_id] THEN transaction ELSE UNCHANGED txn

AddDeletedVids ==
    /\ pc = "add_deleted_vids"
    /\ LET r == add_deleted_vids(videos, all_vid_ids, deleted, now)
       IN  IF deleted # {} /\ r.err
           THEN /\ Crash("UniqueViolation")
                /\ UNCHANGED videos
           ELSE /\ videos' = IF deleted # {} THEN r.videos ELSE videos
                /\ pc' = "add_vid_tags"
                /\ UNCHANGED <<snap, locals, error>>
    /\ UNCHANGED <<remote, playlists, playlistVideos, tags, videoTags, channels,
                   channelVideos, caches, threads, idx, checked_playlists,
                   now, changes, nd_count, history>>
    /\ UNCHANGED phases
    /\ IF pc' = "crashed" THEN connection_exit
       ELSE IF deleted # {} THEN transaction ELSE UNCHANGED txn

AddVidTags ==
    /\ pc = "add_vid_tags"
    /\ LET r == add_vid_tags(tags, videoTags, all_tags, all_vids, items,
                             [v \in items |-> RemoteVideo(v)], {})
       IN  IF r.err
           THEN /\ Crash("UniqueViolation")
                /\ tags' = r.tags
                /\ all_tags' = r.all_tags
                /\ UNCHANGED videoTags
           ELSE /\ tags' = r.tags
                /\ all_tags' = r.all_tags
                /\ videoTags' = r.videoTags
                /\ pc' = "get_channels"
                /\ UNCHANGED <<snap, locals, error>>
    /\ UNCHANGED <<remote, playlists, videos, playlistVideos, channels, channelVideos,
                   already_checked, all_vids, all_vid_ids, channel_cache,
                   db_channel_cache, threads, idx, checked_playlists, now,
                   changes, nd_count, history>>
    /\ UNCHANGED phases
    /\ IF pc' = "crashed" THEN connection_exit ELSE commit

\* Channel ids of the current items that are not in the channel cache
all_channels == {RemoteVideo(v).channel_id : v \in items}
uncached == all_channels \ channel_cache
cached_channels == all_channels \ uncached

\* get_channels returned the channels asked for: the cache grows, the
\* channels are added or updated and the items are linked to them
GetChannelsOk ==
    /\ pc = "get_channels"
    /\ LET r == add_channel_videos(channels, channelVideos, db_channel_cache, all_vids,
                                   items, [v \in items |-> RemoteVideo(v)],
                                   uncached, [c \in uncached |-> RemoteChannel(c)],
                                   cached_channels)
       IN  IF r.err
           THEN /\ Crash("UniqueViolation")
                /\ UNCHANGED <<channels, channelVideos, db_channel_cache>>
           ELSE /\ channels' = r.channels
                /\ channelVideos' = r.channelVideos
                /\ db_channel_cache' = r.db_channel_cache
                /\ pc' = "after"
                /\ UNCHANGED <<snap, locals, error>>
    /\ channel_cache' = channel_cache \cup uncached
    /\ UNCHANGED <<remote, playlists, videos, playlistVideos, tags, videoTags,
                   already_checked, all_vids, all_vid_ids, all_tags, threads, idx,
                   checked_playlists, now, changes, nd_count, history>>
    /\ UNCHANGED phases
    /\ IF pc' = "crashed" THEN connection_exit ELSE commit

\* channel_info failed (it sends no request for an empty id list):
\* get_channels returns None without raising, and channel_cache.update(None)
\* raises TypeError, which nothing in check_all catches
GetChannelsFailed ==
    /\ pc = "get_channels"
    /\ uncached # {}
    /\ Crash("TypeError")
    /\ UNCHANGED <<remote, db, caches, threads, idx, checked_playlists,
                   now, changes, nd_count, history>>
    /\ UNCHANGED phases
    /\ connection_exit

\* The DELETE of update_removed_playlist_videos fails: the function rolls its
\* transaction back and raises again; what the earlier steps committed
\* stays, and nothing in check_all catches the exception
StorageWriteFailed ==
    /\ pc = "update_removed"
    /\ Crash("psycopg.Error")
    /\ rollback
    /\ UNCHANGED <<remote, caches, threads, idx, checked_playlists,
                   now, changes, nd_count, history>>
    /\ UNCHANGED phases
    /\ connection_exit

\* new of the payload: the current items whose db id was not joined to the
\* playlist before this run's writes
NewVideos_all_current == items
NewVideos == items \ {k \in DOMAIN all_vids : all_vids[k] \in old}

\* get_deleted_info returns at once when no video is deleted and runs its
\* SELECT otherwise
get_deleted_info_queries == deleted # {}

\* The playlist counts as checked; when scripts are configured the payload
\* is built and handed to a new thread; then the next playlist
Dispatch ==
    /\ pc = "after"
    /\ checked_playlists' = checked_playlists \cup {playlist_row.id}
    /\ IF HasAfter[playlist_id]
       THEN /\ threads' = Append(threads, [playlist_id |-> playlist_id,
                                           playlist_name |-> playlist_row.name,
                                           new |-> NewVideos,
                                           deleted |-> deleted,
                                           new_deleted |-> new_deleted])
            /\ nd_count' = [v \in Videos |->
                               IF v \in new_deleted THEN nd_count[v] + 1 ELSE nd_count[v]]
       ELSE UNCHANGED <<threads, nd_count>>
    /\ reconciled' = reconciled \cup items \cup deleted
    /\ idx' = idx + 1
    /\ pc' = "loop"
    /\ ResetLocals
    /\ UNCHANGED <<remote, db, caches, now, changes, snap, prior, in_videos, in_channels>>
    /\ IF HasAfter[playlist_id] /\ get_deleted_info_queries THEN execute ELSE UNCHANGED txn

\* In the specifications of the loop alone the thread is not followed
RunAfter ==
    /\ Dispatch
    /\ UNCHANGED <<error, phases>>

\* Every configured playlist has a row with one of these ids
AllPlaylistIds == {playlists[p].id : p \in Range(ConfigPlaylists)}

\* The loop is over and check_all runs to its end
Finish ==
    /\ pc = "loop"
    /\ idx > Len(ConfigPlaylists)
    /\ pc' = "done"
    /\ snap' = IF Range(ConfigPlaylists) \subseteq DOMAIN playlists
                  /\ checked_playlists = AllPlaylistIds
               THEN [valid |-> TRUE, db |-> db] ELSE NoSnap
    /\ UNCHANGED <<remote, db, caches, threads, idx, checked_playlists, locals,
                   now, changes, nd_count, history>>
    /\ UNCHANGED <<error, phases>>
    /\ commit

Next ==
    \/ RemoteChange
    \/ StartRun
    \/ LoopHead
    \/ PlaylistItemsFailed
    \/ VideoInfoFailed
    \/ GetVideosOk
    \/ GetNewDeleted
    \/ AddAndUpdateVids
    \/ GetVidIds
    \/ UpdateRemovedPlaylistVideos
    \/ AddPlaylistVids
    \/ UpdateArchived
    \/ AddDeletedVids
    \/ AddVidTags
    \/ GetChannelsOk
    \/ GetChannelsFailed
    \/ RunAfter
    \/ Finish

Spec == Init /\ [][Next]_vars

\* ------------------------------------------------------------------------
\* Runs against an unchanging remote in which the store may fail
\* ------------------------------------------------------------------------
NextStorage ==
    \/ StartRun
    \/ LoopHead
    \/ PlaylistItemsFailed
    \/ VideoInfoFailed
    \/ GetVideosOk
    \/ GetNewDeleted
    \/ AddAndUpdateVids
    \/ GetVidIds
    \/ UpdateRemovedPlaylistVideos
    \/ AddPlaylistVids
    \/ UpdateArchived
    \/ AddDeletedVids
    \/ AddVidTags
    \/ GetChannelsOk
    \/ GetChannelsFailed
    \/ StorageWriteFailed
    \/ RunAfter
    \/ Finish

SpecStorage == Init /\ [][NextStorage]_vars

\* ------------------------------------------------------------------------
\* add_and_update_vids and add_channels called on their own: a catalog that
\* holds video A and channel ch1 with any stored values, caches loaded from
\* it, then one call of each with any incoming values
\* ------------------------------------------------------------------------
StoredVideoRows ==
    {[id |-> 1, title |-> t, description |-> d, published_at |-> 0, thumbnail |-> th,
      deleted |-> (t = "Deleted video"), deleted_at |-> IF t = "Deleted video" THEN 0 ELSE NoTime,
      download |-> FALSE] :
        t \in {"title", "Deleted video"}, d \in {NULL, "desc"}, th \in {NULL, "thumb"}}

StoredChannelRows ==
    {[id |-> 1, name |-> n, thumbnail |-> th] : n \in {NULL, "name"}, th \in {NULL, "cthumb"}}

\* Batches of incoming videos: A with any title and thumbnail, alone or with B
IncomingVideos ==
    {[v \in vids |-> IF v = "A" THEN [RemoteVideo(v) EXCEPT !.title = t, !.thumbnail = th]
                               ELSE RemoteVideo(v)] :
        vids \in {{"A"}, {"A", "B"}}, t \in {NULL, "title", "title2"},
        th \in {NULL, "thumb", "thumb2"}}

\* Batches of incoming channels: ch1 with any name and thumbnail, alone or
\* with ch2
IncomingChannels ==
    {[c \in chans |-> IF c = "ch1" THEN [name |-> n, thumbnail |-> th] ELSE RemoteChannel(c)] :
        chans \in {{"ch1"}, {"ch1", "ch2"}}, n \in {NULL, "name", "name2"},
        th \in {NULL, "cthumb", "cthumb2"}}

InitUpsert ==
    /\ listing = [p \in Playlists |-> {}]
    /\ avail = {}
    /\ playlists = [p \in Playlists |-> [id |-> IF p = "P" THEN 1 ELSE 2, name |-> p]]
    /\ videos \in [{"A"} -> StoredVideoRows]
    /\ playlistVideos = {}
    /\ tags = EmptyMap
    /\ videoTags = {}
    /\ channels \in [{"ch1"} -> StoredChannelRows]
    /\ channelVideos = {}
    /\ already_checked = {}
    /\ all_vids = [v \in DOMAIN videos |-> videos[v].id]
    /\ all_vid_ids = DOMAIN videos
    /\ channel_cache = {}
    /\ db_channel_cache = DOMAIN channels
    /\ all_tags = EmptyMap
    /\ threads = <<>>
    /\ pc = "direct_videos"
    /\ idx = 1
    /\ checked_playlists = {}
    /\ old = {}
    /\ all_items = {}
    /\ retval = "None"
    /\ items = {}
    /\ deleted = {}
    /\ checked_items = {}
    /\ new_deleted = {}
    /\ vid_ids = EmptyMap
    /\ now = 1
    /\ changes = 0
    /\ snap = NoSnap
    /\ prior = {}
    /\ reconciled = {}
    /\ nd_count = [v \in Videos |-> 0]
    /\ in_videos = EmptyMap
    /\ in_channels = EmptyMap
    /\ error = "none"
    /\ committed = db
    /\ in_transaction = FALSE
    /\ PhasesIdle

DirectAddAndUpdateVids ==
    /\ pc = "direct_videos"
    /\ \E data \in IncomingVideos :
          /\ in_videos' = data
          /\ videos' = add_and_update_vids(videos, all_vid_ids, DOMAIN data, data).videos
    /\ pc' = "direct_channels"
    /\ UNCHANGED <<remote, playlists, playlistVideos, tags, videoTags, channels,
                   channelVideos, caches, threads, idx, checked_playlists, locals,
                   now, changes, snap, prior, reconciled, nd_count, in_channels>>
    /\ UNCHANGED <<error, phases>>
    /\ transaction

DirectAddChannels ==
    /\ pc = "direct_channels"
    /\ \E data \in IncomingChannels :
          LET r == add_channels(channels, db_channel_cache, DOMAIN data, data)
          IN  /\ in_channels' = data
              /\ channels' = r.channels
              /\ db_channel_cache' = r.db_channel_cache
    /\ pc' = "direct_done"
    /\ UNCHANGED <<remote, playlists, videos, playlistVideos, tags, videoTags,
                   channelVideos, already_checked, all_vids, all_vid_ids, channel_cache,
                   all_tags, threads, idx, checked_playlists, locals, now, changes,
                   snap, prior, reconciled, nd_count, in_videos>>
    /\ UNCHANGED <<error, phases>>
    /\ transaction

NextUpsert ==
    \/ DirectAddAndUpdateVids
    \/ DirectAddChannels

SpecUpsert == InitUpsert /\ [][NextUpsert]_vars

\* ------------------------------------------------------------------------
\* add_vid_tags called on its own with default tags: the catalog holds video
\* A and perhaps B, the tags table is empty or holds "music", the caches are
\* loaded from the catalog
\* ------------------------------------------------------------------------
\* The videos parameter: A and B in any combination, each with or without
\* tags of its own
TaggedVideos ==
    {[v \in vids |-> [RemoteVideo(v) EXCEPT !.tags = IF v = "A" THEN ta ELSE tb]] :
        vids \in {{"A"}, {"B"}, {"A", "B"}},
        ta \in {{}, {"Music"}, {"Music", "Live"}}, tb \in {{}, {"Live"}}}

InitTags ==
    /\ listing = [p \in Playlists |-> {}]
    /\ avail = {}
    /\ playlists = [p \in Playlists |-> [id |-> IF p = "P" THEN 1 ELSE 2, name |-> p]]
    /\ \E stored \in {{"A"}, {"A", "B"}} :
          videos = [v \in stored |-> NewVideoRow(RemoteVideo(v), Rank[v])]
    /\ playlistVideos = {}
    /\ tags \in {EmptyMap, [t \in {"music"} |-> 1]}
    /\ videoTags = {}
    /\ channels = EmptyMap
    /\ channelVideos = {}
    /\ already_checked = {}
    /\ all_vids = [v \in DOMAIN videos |-> videos[v].id]
    /\ all_vid_ids = DOMAIN videos
    /\ channel_cache = {}
    /\ db_channel_cache = {}
    /\ all_tags = tags
    /\ threads = <<>>
    /\ pc = "direct_tags"
    /\ idx = 1
    /\ checked_playlists = {}
    /\ old = {}
    /\ all_items = {}
    /\ retval = "None"
    /\ items = {}
    /\ deleted = {}
    /\ checked_items = {}
    /\ new_deleted = {}
    /\ vid_ids = EmptyMap
    /\ now = 1
    /\ changes = 0
    /\ snap = NoSnap
    /\ prior = {}
    /\ reconciled = {}
    /\ nd_count = [v \in Videos |-> 0]
    /\ in_videos = EmptyMap
    /\ in_channels = EmptyMap
    /\ error = "none"
    /\ committed = db
    /\ in_transaction = FALSE
    /\ PhasesIdle

DirectAddVidTags ==
    /\ pc = "direct_tags"
    /\ \E data \in TaggedVideos, dflt \in {{}, {"music"}, {"Music"}} :
          LET r == add_vid_tags(tags, videoTags, all_tags, all_vids, DOMAIN data, data, dflt)
          IN  /\ in_videos' = data
              /\ in_default_tags' = dflt
              /\ tags' = r.tags
              /\ all_tags' = r.all_tags
              /\ videoTags' = r.videoTags
    /\ pc' = "direct_done"
    /\ UNCHANGED <<remote, playlists, videos, playlistVideos, channels, channelVideos,
                   already_checked, all_vids, all_vid_ids, channel_cache,
                   db_channel_cache, threads, idx, checked_playlists, locals, now,
                   changes, snap, prior, reconciled, nd_count, in_channels>>
    /\ UNCHANGED <<error, after_vars, drain_vars, download_vars, info_queries, unit_vars>>
    /\ commit

NextTags == DirectAddVidTags

SpecTags == InitTags /\ [][NextTags]_vars

\* ------------------------------------------------------------------------
\* The last run of a process when a configured playlist has no row in the
\* playlists table
\* ------------------------------------------------------------------------
InitNewPlaylist ==
    /\ listing \in [Playlists -> SUBSET Videos]
    /\ avail \in SUBSET Videos
    /\ \E known \in (SUBSET Playlists) \ {Playlists} :
          playlists = [p \in known |-> [id |-> IF p = "P" THEN 1 ELSE 2, name |-> p]]
    /\ videos = EmptyMap
    /\ playlistVideos = {}
    /\ tags = EmptyMap
    /\ videoTags = {}
    /\ channels = EmptyMap
    /\ channelVideos = {}
    /\ already_checked = {}
    /\ all_vids = EmptyMap
    /\ all_vid_ids = {}
    /\ channel_cache = {}
    /\ db_channel_cache = {}
    /\ all_tags = EmptyMap
    /\ threads = <<>>
    /\ pc = "idle"
    /\ idx = 1
    /\ checked_playlists = {}
    /\ old = {}
    /\ all_items = {}
    /\ retval = "None"
    /\ items = {}
    /\ deleted = {}
    /\ checked_items = {}
    /\ new_deleted = {}
    /\ vid_ids = EmptyMap
    /\ now = MaxRuns - 1
    /\ changes = 0
    /\ snap = NoSnap
    /\ prior = {}
    /\ reconciled = {}
    /\ nd_count = [v \in Videos |-> 0]
    /\ in_videos = EmptyMap
    /\ in_channels = EmptyMap
    /\ error = "none"
    /\ committed = db
    /\ in_transaction = FALSE
    /\ PhasesIdle

\* The playlist has no row and get_playlist_info returns None: continue
PlaylistInfoFailed ==
    /\ pc = "loop"
    /\ idx <= Len(ConfigPlaylists)
    /\ playlist_id \notin DOMAIN playlists
    /\ idx' = idx + 1
    /\ UNCHANGED <<pc, remote, db, caches, threads, checked_playlists, locals,
                   now, changes, snap, nd_count, history>>
    /\ UNCHANGED <<error, phases>>
    /\ UNCHANGED txn

\* The playlist has no row and its info was fetched: add_playlist runs the
\* INSERT and reads the id with cursor.fetchone()[0] from a row that
\* dict_row made a dict; the KeyError is caught, the INSERT is rolled back
\* and the exception ends check_all
AddPlaylist ==
    /\ pc = "loop"
    /\ idx <= Len(ConfigPlaylists)
    /\ playlist_id \notin DOMAIN playlists
    /\ Crash("KeyError")
    /\ rollback
    /\ UNCHANGED <<remote, caches, threads, idx, checked_playlists,
                   now, changes, nd_count, history>>
    /\ UNCHANGED phases
    /\ connection_exit

NextNewPlaylist ==
    \/ StartRun
    \/ LoopHead
    \/ PlaylistInfoFailed
    \/ AddPlaylist
    \/ PlaylistItemsFailed
    \/ VideoInfoFailed
    \/ GetVideosOk
    \/ GetNewDeleted
    \/ AddAndUpdateVids
    \/ GetVidIds
    \/ UpdateRemovedPlaylistVideos
    \/ AddPlaylistVids
    \/ UpdateArchived
    \/ AddDeletedVids
    \/ AddVidTags
    \/ GetChannelsOk
    \/ GetChannelsFailed
    \/ RunAfter
    \/ Finish

SpecNewPlaylist == InitNewPlaylist /\ [][NextNewPlaylist]_vars

\* ------------------------------------------------------------------------
\* Operations outside the loop of check_all, each followed on its own.  The
\* catalog and the loop are at rest and stay so
\* ------------------------------------------------------------------------
loop_vars == <<remote, db, caches, threads, idx, checked_playlists, locals, now, changes,
               snap, nd_count, history, error, txn, after_vars, drain_vars, download_vars>>

AtRest ==
    /\ listing = [p \in Playlists |-> {}]
    /\ avail = {}
    /\ playlists = [p \in Playlists |-> [id |-> IF p = "P" THEN 1 ELSE 2, name |-> p]]
    /\ videos = EmptyMap
    /\ playlistVideos = {}
    /\ tags = EmptyMap
    /\ videoTags = {}
    /\ channels = EmptyMap
    /\ channelVideos = {}
    /\ already_checked = {}
    /\ all_vids = EmptyMap
    /\ all_vid_ids = {}
    /\ channel_cache = {}
    /\ db_channel_cache = {}
    /\ all_tags = EmptyMap
    /\ threads = <<>>
    /\ idx = 1
    /\ checked_playlists = {}
    /\ old = {}
    /\ all_items = {}
    /\ retval = "None"
    /\ items = {}
    /\ deleted = {}
    /\ checked_items = {}
    /\ new_deleted = {}
    /\ vid_ids = EmptyMap
    /\ now = 1
    /\ changes = 0
    /\ snap = NoSnap
    /\ prior = {}
    /\ reconciled = {}
    /\ nd_count = [v \in Videos |-> 0]
    /\ in_videos = EmptyMap
    /\ in_channels = EmptyMap
    /\ error = "none"
    /\ committed = db
    /\ in_transaction = FALSE
    /\ AfterIdle
    /\ DrainIdle
    /\ DownloadIdle

\* ------------------------------------------------------------------------
\* bulk_download_thumbnails: the videos are numbered in the order of the
\* loop; every call of download_thumbnail is one step
\* ------------------------------------------------------------------------
CHUNK_SIZE == 5

\* video.thumbnail of video v is set
HasUrl(v) == v # no_url

\* What download_thumbnail(v) returns when its request, if it gets to one,
\* has the outcome ok: False without a url, None when the file exists; the
\* file is opened for writing before the request is made, False is
\* returned when the response is not ok, and the function ends without a
\* return statement after the chunks are written
download_thumbnail(v, ok) ==
    IF ~HasUrl(v) THEN [ret |-> "False", files |-> thumbnail_files, request |-> "none"]
    ELSE IF v \in thumbnail_files
    THEN [ret |-> "None", files |-> thumbnail_files, request |-> "none"]
    ELSE IF ~ok
    THEN [ret |-> "False", files |-> thumbnail_files \cup {v}, request |-> "failed"]
    ELSE [ret |-> "None", files |-> thumbnail_files \cup {v}, request |-> "ok"]

InitThumbnails ==
    /\ AtRest
    /\ pc = "thumbnails"
    /\ in_default_tags = {}
    /\ info_queries = {}
    /\ thumbnail_files \in SUBSET {1, 2}
    /\ no_url \in 0..MaxThumbnails
    /\ bulk_run = 0
    /\ bulk_pos = 0
    /\ bulk_i = 0
    /\ bulk_res = "None"
    /\ request = "none"
    /\ unslept = 0
    /\ remote_pages = 1
    /\ max_results = 0
    /\ page_token = 0
    /\ api_items = 0
    /\ api_ret = "pending"
    /\ platform = "posix"
    /\ lock_path = 0
    /\ inodes = 0
    /\ flock = <<>>
    /\ lock_fd = <<>>
    /\ lpc = <<>>

\* bulk_download_thumbnails is called: i = 0
StartBulk ==
    /\ pc = "thumbnails"
    /\ bulk_pos \in {0, MaxThumbnails + 1}
    /\ bulk_run < MaxBulkRuns
    /\ bulk_run' = bulk_run + 1
    /\ bulk_pos' = 1
    /\ bulk_i' = 0
    /\ unslept' = 0
    /\ request' = "none"
    /\ UNCHANGED <<pc, loop_vars, in_default_tags, info_queries, thumbnail_files, no_url,
                   bulk_res, paging_vars, lock_vars>>

\* One iteration of the loop: download_thumbnail, and for a result other
\* than None the counter and the sleep after every CHUNK_SIZE counted
BulkStep ==
    /\ pc = "thumbnails"
    /\ bulk_pos \in 1..MaxThumbnails
    /\ \E ok \in BOOLEAN :
          LET r == download_thumbnail(bulk_pos, ok)
              n == IF r.request = "none" THEN unslept ELSE unslept + 1
              counted == r.ret # "None"
              sleeps == counted /\ (bulk_i + 1) % CHUNK_SIZE = 0
          IN  /\ bulk_res' = r.ret
              /\ thumbnail_files' = r.files
              /\ request' = r.request
              /\ bulk_i' = IF counted THEN bulk_i + 1 ELSE bulk_i
              /\ unslept' = IF sleeps THEN 0 ELSE n
    /\ bulk_pos' = bulk_pos + 1
    /\ UNCHANGED <<pc, loop_vars, in_default_tags, info_queries, no_url, bulk_run,
                   paging_vars, lock_vars>>

NextThumbnails ==
    \/ StartBulk
    \/ BulkStep

SpecThumbnails == InitThumbnails /\ [][NextThumbnails]_vars

\* ------------------------------------------------------------------------
\* YTApi.playlist_items as get_videos calls it (max_results=None): the
\* pages of the playlist are fetched in order, every page but the last is
\* full and names the next page
\* ------------------------------------------------------------------------
DefaultMaxResults == 5000
PageLimit == 50

\* What the platform answers for page n: its items and nextPageToken
RemotePage(n) ==
    IF n < remote_pages THEN [items |-> PageLimit, nextPageToken |-> n + 1]
    ELSE [items |-> 1, nextPageToken |-> 0]

\* Items of the whole playlist
TotalItems == (remote_pages - 1) * PageLimit + 1

InitPaging ==
    /\ AtRest
    /\ pc = "playlist_items"
    /\ in_default_tags = {}
    /\ info_queries = {}
    /\ thumbnail_files = {}
    /\ no_url = 0
    /\ bulk_run = 0
    /\ bulk_pos = 0
    /\ bulk_i = 0
    /\ bulk_res = "None"
    /\ request = "none"
    /\ unslept = 0
    /\ remote_pages \in 1..MaxPages
    /\ max_results = DefaultMaxResults
    /\ page_token = 0
    /\ api_items = 0
    /\ api_ret = "pending"
    /\ platform = "posix"
    /\ lock_path = 0
    /\ inodes = 0
    /\ flock = <<>>
    /\ lock_fd = <<>>
    /\ lpc = <<>>

\* One pass of the while loop with an answer from the platform: the items
\* are appended; without a next page the listing is returned, otherwise
\* max_results is reduced, and when nothing is left of it the loop ends
\* and what was collected is returned
FetchPage ==
    /\ pc = "playlist_items"
    /\ max_results > 0
    /\ LET js == RemotePage(IF page_token = 0 THEN 1 ELSE page_token)
           _max_results == IF max_results < PageLimit THEN max_results ELSE PageLimit
           left == max_results - _max_results
       IN  /\ page_token' = js.nextPageToken
           /\ api_items' = api_items + js.items
           /\ IF js.nextPageToken = 0
              THEN /\ api_ret' = "js"
                   /\ pc' = "returned"
                   /\ UNCHANGED max_results
              ELSE /\ max_results' = left
                   /\ IF left > 0
                      THEN UNCHANGED <<pc, api_ret>>
                      ELSE /\ api_ret' = IF api_items' # 0 THEN "js" ELSE "None"
                           /\ pc' = "returned"
    /\ UNCHANGED <<loop_vars, in_default_tags, info_queries, thumbnail_vars, remote_pages,
                   lock_vars>>

\* HttpError on a page: None is returned
FetchFailed ==
    /\ pc = "playlist_items"
    /\ max_results > 0
    /\ api_ret' = "None"
    /\ pc' = "returned"
    /\ UNCHANGED <<loop_vars, in_default_tags, info_queries, thumbnail_vars, remote_pages,
                   max_results, page_token, api_items, lock_vars>>

NextPaging ==
    \/ FetchPage
    \/ FetchFailed

SpecPaging == InitPaging /\ [][NextPaging]_vars

\* ------------------------------------------------------------------------
\* The lock file of run.py: several instances are started in the same
\* directory.  FileLock.acquire opens the file named .lock, creating it when
\* it is missing, and takes a lock on the open file without blocking until
\* it gets it or the timeout passes.  On POSIX a file that is open can be
\* unlinked and the lock stays with the unlinked file; on Windows a file
\* that another process has open cannot be removed
\* ------------------------------------------------------------------------
Instances == 1..MaxInstances

\* Another instance has the file f open
OpenElsewhere(p, f) == \E q \in Instances \ {p} : lock_fd[q] = f

InitLock ==
    /\ AtRest
    /\ pc = "lock"
    /\ in_default_tags = {}
    /\ info_queries = {}
    /\ thumbnail_files = {}
    /\ no_url = 0
    /\ bulk_run = 0
    /\ bulk_pos = 0
    /\ bulk_i = 0
    /\ bulk_res = "None"
    /\ request = "none"
    /\ unslept = 0
    /\ remote_pages = 1
    /\ max_results = 0
    /\ page_token = 0
    /\ api_items = 0
    /\ api_ret = "pending"
    /\ platform \in {"posix", "windows"}
    /\ \/ lock_path = 0 /\ inodes = 0
       \/ lock_path = 1 /\ inodes = 1
    /\ flock = [f \in 1..(2 * MaxInstances) |-> 0]
    /\ lock_fd = [p \in Instances |-> 0]
    /\ lpc = [p \in Instances |-> "exists"]

NotLock == <<pc, loop_vars, in_default_tags, info_queries, thumbnail_vars, paging_vars,
             platform>>

\* os.path.exists(lock)
LockExists(p) ==
    /\ lpc[p] = "exists"
    /\ lpc' = [lpc EXCEPT ![p] = IF lock_path # 0 THEN "remove" ELSE "open"]
    /\ UNCHANGED <<NotLock, lock_path, inodes, flock, lock_fd>>

\* os.remove(lock); an OSError ends the instance
LockRemove(p) ==
    /\ lpc[p] = "remove"
    /\ IF lock_path = 0 \/ (platform = "windows" /\ OpenElsewhere(p, lock_path))
       THEN /\ lpc' = [lpc EXCEPT ![p] = "aborted"]
            /\ UNCHANGED lock_path
       ELSE /\ lpc' = [lpc EXCEPT ![p] = "open"]
            /\ lock_path' = 0
    /\ UNCHANGED <<NotLock, inodes, flock, lock_fd>>

\* with open(lock, 'w'): pass.  On Windows the truncation of a file that
\* another instance has locked may be refused, which ends the instance
LockOpen(p) ==
    /\ lpc[p] = "open"
    /\ \/ /\ lpc' = [lpc EXCEPT ![p] = "acquire"]
          /\ IF lock_path = 0
             THEN /\ inodes' = inodes + 1
                  /\ lock_path' = inodes + 1
             ELSE UNCHANGED <<lock_path, inodes>>
       \/ /\ platform = "windows"
          /\ lock_path # 0
          /\ OpenElsewhere(p, lock_path)
          /\ lpc' = [lpc EXCEPT ![p] = "raised"]
          /\ UNCHANGED <<lock_path, inodes>>
    /\ UNCHANGED <<NotLock, flock, lock_fd>>

\* lockfile.acquire(timeout=1) gets the lock: the file named .lock is not
\* locked by another instance
LockAcquire(p) ==
    /\ lpc[p] = "acquire"
    /\ LET f == IF lock_path = 0 THEN inodes + 1 ELSE lock_path
       IN  /\ flock[f] = 0
           /\ flock' = [flock EXCEPT ![f] = p]
           /\ lock_fd' = [lock_fd EXCEPT ![p] = f]
           /\ lock_path' = f
           /\ inodes' = IF lock_path = 0 THEN inodes + 1 ELSE inodes
    /\ lpc' = [lpc EXCEPT ![p] = "check_all"]
    /\ UNCHANGED NotLock

\* Timeout: the file named .lock stayed locked by another instance
LockTimeout(p) ==
    /\ lpc[p] = "acquire"
    /\ lock_path # 0
    /\ flock[lock_path] # 0
    /\ lpc' = [lpc EXCEPT ![p] = "aborted"]
    /\ UNCHANGED <<NotLock, lock_path, inodes, flock, lock_fd>>

\* check_all is over and the instance ends; its lock goes with it
InstanceEnds(p) ==
    /\ lpc[p] = "check_all"
    /\ flock' = [flock EXCEPT ![lock_fd[p]] = 0]
    /\ lock_fd' = [lock_fd EXCEPT ![p] = 0]
    /\ lpc' = [lpc EXCEPT ![p] = "ended"]
    /\ UNCHANGED <<NotLock, lock_path, inodes>>

NextLock ==
    \/ \E p \in Instances : LockExists(p)
    \/ \E p \in Instances : LockRemove(p)
    \/ \E p \in Instances : LockOpen(p)
    \/ \E p \in Instances : LockAcquire(p)
    \/ \E p \in Instances : LockTimeout(p)
    \/ \E p \in Instances : InstanceEnds(p)

SpecLock == InitLock /\ [][NextLock]_vars

\* ------------------------------------------------------------------------
\* run_after: one thread per checked playlist runs the playlist's scripts in
\* order.  A script is named by how it behaves: it runs and exits with
\* status 0 ("ok") or another status ("nonzero"), its executable is missing
\* ("missing"), it ends without reading its stdin ("closes_stdin"), or it
\* reads its stdin and never ends ("hangs").
\* ------------------------------------------------------------------------
ScriptKinds == {"ok", "nonzero", "missing", "closes_stdin", "hangs"}

\* The lists of scripts a playlist can be configured with
ScriptLists == UNION {[1..n -> ScriptKinds] : n \in 1..MaxScripts}

\* The payload of a thread started for playlist p
Payload(p) ==
    [playlist_id |-> p, playlist_name |-> p, new |-> {}, deleted |-> {}, new_deleted |-> {}]

InitAfter ==
    /\ listing = [p \in Playlists |-> {}]
    /\ avail = {}
    /\ playlists = [p \in Playlists |-> [id |-> IF p = "P" THEN 1 ELSE 2, name |-> p]]
    /\ videos = EmptyMap
    /\ playlistVideos = {}
    /\ tags = EmptyMap
    /\ videoTags = {}
    /\ channels = EmptyMap
    /\ channelVideos = {}
    /\ already_checked = {}
    /\ all_vids = EmptyMap
    /\ all_vid_ids = {}
    /\ channel_cache = {}
    /\ db_channel_cache = {}
    /\ all_tags = EmptyMap
    /\ threads = <<Payload("P"), Payload("Q")>>
    /\ pc = "loop"
    /\ idx = Len(ConfigPlaylists) + 1
    /\ checked_playlists = AllPlaylistIds
    /\ old = {}
    /\ all_items = {}
    /\ retval = "None"
    /\ items = {}
    /\ deleted = {}
    /\ checked_items = {}
    /\ new_deleted = {}
    /\ vid_ids = EmptyMap
    /\ now = 1
    /\ changes = 0
    /\ snap = NoSnap
    /\ prior = {}
    /\ reconciled = {}
    /\ nd_count = [v \in Videos |-> 0]
    /\ in_videos = EmptyMap
    /\ in_channels = EmptyMap
    /\ error = "none"
    /\ committed = db
    /\ in_transaction = FALSE
    /\ after \in [1..Len(threads) -> ScriptLists]
    /\ after_pos = [t \in 1..Len(threads) |-> 1]
    /\ thread_state = [t \in 1..Len(threads) |-> "running"]
    /\ attempted = {}
    /\ started = {}
    /\ required_fields = [t \in 1..Len(threads) |-> [i \in 1..Len(after[t]) |-> {}]]
    /\ stdin = {}
    /\ DrainIdle
    /\ DownloadIdle
    /\ OtherIdle

\* The script the loop of thread t is at
cmd(t) == after[t][after_pos[t]]

\* fields and optional_fields as check_all built them for thread t
BaseFields == {"url_format", "channel_format", "playlist_format", "playlist_id",
               "playlist_name"}
ScriptDataField == {"new", "deleted", "new_deleted"}
fields(t) ==
    [k \in BaseFields |->
        CASE k = "url_format" -> "https://www.youtube.com/watch?v=%s"
          [] k = "channel_format" -> "https://www.youtube.com/channel/%s"
          [] k = "playlist_format" -> "https://www.youtube.com/playlist?list=%s"
          [] k = "playlist_id" -> threads[t].playlist_id
          [] OTHER -> threads[t].playlist_name]
optional_fields_shared(t) ==
    [k \in ScriptDataField |->
        CASE k = "deleted" -> deleted [] k = "new_deleted" -> new_deleted
          [] OTHER -> threads[t][k]]
optional_fields(t) == [k \in ScriptDataField |-> threads[t][k]]

\* data of the script the loop of thread t is at
data_always_all(t) == DictUpdate(fields(t), optional_fields(t))
data(t) ==
    IF required_fields[t][after_pos[t]] = {}
    THEN DictUpdate(fields(t), optional_fields(t))
    ELSE DictUpdate(fields(t), [k \in required_fields[t][after_pos[t]] |->
                                   optional_fields(t)[k]])

\* p.stdin.write of the script the loop of thread t is at
Written(t) == [thread |-> t, index |-> after_pos[t], data |-> data(t)]

\* Popen raises FileNotFoundError: logged, and the loop continues
ScriptNotFound(t) ==
    /\ thread_state[t] = "running"
    /\ after_pos[t] <= Len(after[t])
    /\ cmd(t) = "missing"
    /\ attempted' = attempted \cup {<<t, after_pos[t]>>}
    /\ after_pos' = [after_pos EXCEPT ![t] = @ + 1]
    /\ UNCHANGED <<thread_state, started, stdin>>

\* The process starts, the payload is written to its stdin and communicate
\* returns; the exit status is not looked at.  The write to a process that
\* does not read succeeds when the payload fits the buffer of the pipe
ScriptRuns(t) ==
    /\ thread_state[t] = "running"
    /\ after_pos[t] <= Len(after[t])
    /\ cmd(t) \in {"ok", "nonzero", "closes_stdin"}
    /\ attempted' = attempted \cup {<<t, after_pos[t]>>}
    /\ started' = started \cup {<<t, after_pos[t]>>}
    /\ stdin' = stdin \cup {Written(t)}
    /\ after_pos' = [after_pos EXCEPT ![t] = @ + 1]
    /\ UNCHANGED thread_state

\* The process starts and reads the payload; communicate does not return
\* while the process runs, and this process does not end
ScriptHangs(t) ==
    /\ thread_state[t] = "running"
    /\ after_pos[t] <= Len(after[t])
    /\ cmd(t) = "hangs"
    /\ attempted' = attempted \cup {<<t, after_pos[t]>>}
    /\ started' = started \cup {<<t, after_pos[t]>>}
    /\ stdin' = stdin \cup {Written(t)}
    /\ thread_state' = [thread_state EXCEPT ![t] = "waiting"]
    /\ UNCHANGED after_pos

\* The process starts and p.stdin.write raises BrokenPipeError, outside of
\* any try: the exception ends the thread
StdinWriteFails(t) ==
    /\ thread_state[t] = "running"
    /\ after_pos[t] <= Len(after[t])
    /\ cmd(t) = "closes_stdin"
    /\ attempted' = attempted \cup {<<t, after_pos[t]>>}
    /\ started' = started \cup {<<t, after_pos[t]>>}
    /\ thread_state' = [thread_state EXCEPT ![t] = "raised"]
    /\ UNCHANGED <<after_pos, stdin>>

\* The loop over cmds is over
RunAfterReturns(t) ==
    /\ thread_state[t] = "running"
    /\ after_pos[t] > Len(after[t])
    /\ thread_state' = [thread_state EXCEPT ![t] = "returned"]
    /\ UNCHANGED <<after_pos, attempted, started, stdin>>

\* One step of one of the threads; the main thread is not involved
run_after ==
    /\ \E t \in DOMAIN thread_state :
          \/ ScriptNotFound(t)
          \/ ScriptRuns(t)
          \/ ScriptHangs(t)
          \/ StdinWriteFails(t)
          \/ RunAfterReturns(t)
    /\ UNCHANGED <<remote, db, caches, threads, pc, idx, checked_playlists, locals,
                   now, changes, snap, nd_count, history, error, txn, after, required_fields,
                   drain_vars, download_vars, other_vars>>

NextAfter == run_after

SpecAfter == InitAfter /\ [][NextAfter]_vars

\* ------------------------------------------------------------------------
\* run_after with any payload and any required_fields: one thread whose
\* scripts each declare a subset of ScriptDataField (none declared: the
\* empty list or no list)
\* ------------------------------------------------------------------------
PayloadsOf(p) ==
    {[playlist_id |-> p, playlist_name |-> p, new |-> n, deleted |-> d, new_deleted |-> nd] :
        n \in {{}, {"A"}}, d \in {{}, {"B"}}, nd \in {{}, {"B"}}}

InitPayload ==
    /\ listing = [p \in Playlists |-> {}]
    /\ avail = {}
    /\ playlists = [p \in Playlists |-> [id |-> IF p = "P" THEN 1 ELSE 2, name |-> p]]
    /\ videos = EmptyMap
    /\ playlistVideos = {}
    /\ tags = EmptyMap
    /\ videoTags = {}
    /\ channels = EmptyMap
    /\ channelVideos = {}
    /\ already_checked = {}
    /\ all_vids = EmptyMap
    /\ all_vid_ids = {}
    /\ channel_cache = {}
    /\ db_channel_cache = {}
    /\ all_tags = EmptyMap
    /\ \E payload \in PayloadsOf("P") :
          /\ payload.new_deleted \subseteq payload.deleted
          /\ threads = <<payload>>
    /\ pc = "loop"
    /\ idx = Len(ConfigPlaylists) + 1
    /\ checked_playlists = AllPlaylistIds
    /\ old = {}
    /\ all_items = {}
    /\ retval = "None"
    /\ items = {}
    /\ deleted = {}
    /\ checked_items = {}
    /\ new_deleted = {}
    /\ vid_ids = EmptyMap
    /\ now = 1
    /\ changes = 0
    /\ snap = NoSnap
    /\ prior = {}
    /\ reconciled = {}
    /\ nd_count = [v \in Videos |-> 0]
    /\ in_videos = EmptyMap
    /\ in_channels = EmptyMap
    /\ error = "none"
    /\ committed = db
    /\ in_transaction = FALSE
    /\ after \in [1..Len(threads) -> ScriptLists]
    /\ after_pos = [t \in 1..Len(threads) |-> 1]
    /\ thread_state = [t \in 1..Len(threads) |-> "running"]
    /\ attempted = {}
    /\ started = {}
    /\ required_fields \in [1..Len(threads) -> UNION {[1..n -> SUBSET ScriptDataField] :
                                                          n \in 1..MaxScripts}]
    /\ \A t \in 1..Len(threads) : Len(required_fields[t]) = Len(after[t])
    /\ stdin = {}
    /\ DrainIdle
    /\ DownloadIdle
    /\ OtherIdle

SpecPayload == InitPayload /\ [][NextAfter]_vars

\* ------------------------------------------------------------------------
\* The last run of a process together with the threads it starts: the main
\* thread goes on with the next playlist while the threads run their script
\* ------------------------------------------------------------------------
InitWorkers ==
    /\ listing \in [Playlists -> SUBSET Videos]
    /\ avail \in SUBSET Videos
    /\ playlists = [p \in Playlists |-> [id |-> IF p = "P" THEN 1 ELSE 2, name |-> p]]
    /\ videos = EmptyMap
    /\ playlistVideos = {}
    /\ tags = EmptyMap
    /\ videoTags = {}
    /\ channels = EmptyMap
    /\ channelVideos = {}
    /\ already_checked = {}
    /\ all_vids = EmptyMap
    /\ all_vid_ids = {}
    /\ channel_cache = {}
    /\ db_channel_cache = {}
    /\ all_tags = EmptyMap
    /\ threads = <<>>
    /\ pc = "idle"
    /\ idx = 1
    /\ checked_playlists = {}
    /\ old = {}
    /\ all_items = {}
    /\ retval = "None"
    /\ items = {}
    /\ deleted = {}
    /\ checked_items = {}
    /\ new_deleted = {}
    /\ vid_ids = EmptyMap
    /\ now = MaxRuns - 1
    /\ changes = 0
    /\ snap = NoSnap
    /\ prior = {}
    /\ reconciled = {}
    /\ nd_count = [v \in Videos |-> 0]
    /\ in_videos = EmptyMap
    /\ in_channels = EmptyMap
    /\ error = "none"
    /\ committed = db
    /\ in_transaction = FALSE
    /\ PhasesIdle

\* Dispatch with the thread followed: thread.start() on a playlist that has
\* one script, which declares no required fields
StartThread ==
    /\ Dispatch
    /\ IF HasAfter[playlist_id]
       THEN /\ \E k \in ScriptKinds : after' = Append(after, <<k>>)
            /\ after_pos' = Append(after_pos, 1)
            /\ thread_state' = Append(thread_state, "running")
            /\ required_fields' = Append(required_fields, <<{}>>)
       ELSE UNCHANGED <<after, after_pos, thread_state, required_fields>>
    /\ UNCHANGED <<attempted, started, stdin, error, drain_vars, download_vars, other_vars>>

\* A step of a thread; the threads are daemons and end with the process
WorkerStep ==
    /\ pc # "crashed"
    /\ run_after

NextWorkers ==
    \/ StartRun
    \/ LoopHead
    \/ PlaylistItemsFailed
    \/ VideoInfoFailed
    \/ GetVideosOk
    \/ GetNewDeleted
    \/ AddAndUpdateVids
    \/ GetVidIds
    \/ UpdateRemovedPlaylistVideos
    \/ AddPlaylistVids
    \/ UpdateArchived
    \/ AddDeletedVids
    \/ AddVidTags
    \/ GetChannelsOk
    \/ GetChannelsFailed
    \/ StartThread
    \/ Finish
    \/ WorkerStep

SpecWorkers == InitWorkers /\ [][NextWorkers]_vars

\* ------------------------------------------------------------------------
\* The loop of the last run with the required fields of the scripts: every
\* playlist has one script, which declares any of the three data fields or
\* none; the threads are not followed
\* ------------------------------------------------------------------------
\* Dispatch on a playlist whose script declares the required fields rf
StartThreadWithFields ==
    /\ Dispatch
    /\ IF HasAfter[playlist_id]
       THEN /\ after' = Append(after, <<"ok">>)
            /\ after_pos' = Append(after_pos, 1)
            /\ thread_state' = Append(thread_state, "running")
            /\ \E rf \in SUBSET ScriptDataField :
                  required_fields' = Append(required_fields, <<rf>>)
            /\ info_queries' = IF get_deleted_info_queries
                               THEN info_queries \cup {playlist_id} ELSE info_queries
       ELSE UNCHANGED <<after, after_pos, thread_state, required_fields, info_queries>>
    /\ UNCHANGED <<attempted, started, stdin, error, drain_vars, download_vars,
                   in_default_tags, unit_vars>>

NextFields ==
    \/ StartRun
    \/ LoopHead
    \/ PlaylistItemsFailed
    \/ VideoInfoFailed
    \/ GetVideosOk
    \/ GetNewDeleted
    \/ AddAndUpdateVids
    \/ GetVidIds
    \/ UpdateRemovedPlaylistVideos
    \/ AddPlaylistVids
    \/ UpdateArchived
    \/ AddDeletedVids
    \/ AddVidTags
    \/ GetChannelsOk
    \/ GetChannelsFailed
    \/ StartThreadWithFields
    \/ Finish

SpecFields == InitWorkers /\ [][NextFields]_vars

\* ------------------------------------------------------------------------
\* The end of check_all: every thread is joined in turn with an equal share
\* of 900 seconds as its timeout, then the process exits at once if one of
\* them is still alive
\* ------------------------------------------------------------------------
JoinSeconds == 900

\* Seconds after the start of the wait at which a thread can end
FinishTimes == {1, 160, 800, 1000}

timeout == JoinSeconds \div Len(threads)

is_alive(t) == finish_at[t] > clock

InitDrain ==
    /\ listing = [p \in Playlists |-> {}]
    /\ avail = {}
    /\ playlists = [p \in Playlists |-> [id |-> IF p = "P" THEN 1 ELSE 2, name |-> p]]
    /\ videos = EmptyMap
    /\ playlistVideos = {}
    /\ tags = EmptyMap
    /\ videoTags = {}
    /\ channels = EmptyMap
    /\ channelVideos = {}
    /\ already_checked = {}
    /\ all_vids = EmptyMap
    /\ all_vid_ids = {}
    /\ channel_cache = {}
    /\ db_channel_cache = {}
    /\ all_tags = EmptyMap
    /\ \E n \in 1..MaxThreads : threads = [t \in 1..n |-> Payload("P")]
    /\ pc = "join"
    /\ idx = Len(ConfigPlaylists) + 1
    /\ checked_playlists = AllPlaylistIds
    /\ old = {}
    /\ all_items = {}
    /\ retval = "None"
    /\ items = {}
    /\ deleted = {}
    /\ checked_items = {}
    /\ new_deleted = {}
    /\ vid_ids = EmptyMap
    /\ now = 1
    /\ changes = 0
    /\ snap = NoSnap
    /\ prior = {}
    /\ reconciled = {}
    /\ nd_count = [v \in Videos |-> 0]
    /\ in_videos = EmptyMap
    /\ in_channels = EmptyMap
    /\ error = "none"
    /\ committed = db
    /\ in_transaction = FALSE
    /\ AfterIdle
    /\ finish_at \in [1..Len(threads) -> FinishTimes]
    /\ clock = 0
    /\ join_i = 1
    /\ exit_path = "none"
    /\ DownloadIdle
    /\ OtherIdle

\* thread.join(timeout=timeout) returns when the thread has ended or when
\* the timeout has passed, whichever comes first
JoinThread ==
    /\ pc = "join"
    /\ join_i <= Len(threads)
    /\ clock' = IF ~is_alive(join_i) THEN clock
                ELSE IF finish_at[join_i] <= clock + timeout THEN finish_at[join_i]
                ELSE clock + timeout
    /\ join_i' = join_i + 1
    /\ UNCHANGED <<remote, db, caches, threads, pc, idx, checked_playlists, locals,
                   now, changes, snap, nd_count, history, error, txn, after_vars,
                   finish_at, exit_path, download_vars, other_vars>>

\* After the last join: exit() when a thread is still alive
AliveCheck ==
    /\ pc = "join"
    /\ join_i > Len(threads)
    /\ exit_path' = IF \E t \in DOMAIN finish_at : is_alive(t) THEN "exit" ELSE "returned"
    /\ pc' = "done"
    /\ UNCHANGED <<remote, db, caches, threads, idx, checked_playlists, locals,
                   now, changes, snap, nd_count, history, error, txn, after_vars,
                   finish_at, clock, join_i, download_vars, other_vars>>

NextDrain ==
    \/ JoinThread
    \/ AliveCheck

SpecDrain == InitDrain /\ [][NextDrain]_vars

\* ------------------------------------------------------------------------
\* The download phase of check_all.  The rows of videos carry here the
\* columns the phase reads and writes.  The commits of the phase are not
\* followed: committed and in_transaction stay as they are when it begins.
\* ------------------------------------------------------------------------
DownloadVideos == {"A", "B", "C"}
VideoDbId(v) == CASE v = "A" -> 1 [] v = "B" -> 2 [] OTHER -> 3

\* The files download_video writes for a video
NewFile(v, kind) ==
    CASE kind = "video" ->
           (CASE v = "A" -> "data/A.mp4" [] v = "B" -> "data/B.mp4" [] OTHER -> "data/C.mp4")
      [] kind = "thumbnail" ->
           (CASE v = "A" -> "data/A.jpg" [] v = "B" -> "data/B.jpg" [] OTHER -> "data/C.jpg")
      [] OTHER ->
           (CASE v = "A" -> "data/A.info.json" [] v = "B" -> "data/B.info.json"
              [] OTHER -> "data/C.info.json")

\* os.path.split(path)[1]
get_filename(path) ==
    CASE path = "data/A.mp4" -> "A.mp4" [] path = "data/B.mp4" -> "B.mp4"
      [] path = "data/C.mp4" -> "C.mp4" [] path = "data/A.jpg" -> "A.jpg"
      [] path = "data/B.jpg" -> "B.jpg" [] path = "data/C.jpg" -> "C.jpg"
      [] path = "data/A.info.json" -> "A.info.json"
      [] path = "data/B.info.json" -> "B.info.json"
      [] path = "data/C.info.json" -> "C.info.json"
      [] path = "data/old.jpg" -> "old.jpg"
      [] path = "data/old.info.json" -> "old.info.json"
      [] OTHER -> path

\* What upload_file returns on success: the tuple (object_name, filesize),
\* written here as the text of the tuple
upload_file(path) ==
    CASE get_filename(path) = "A.mp4" -> "('A.mp4', 1)"
      [] get_filename(path) = "B.mp4" -> "('B.mp4', 1)"
      [] get_filename(path) = "C.mp4" -> "('C.mp4', 1)"
      [] get_filename(path) = "A.jpg" -> "('A.jpg', 1)"
      [] get_filename(path) = "B.jpg" -> "('B.jpg', 1)"
      [] get_filename(path) = "C.jpg" -> "('C.jpg', 1)"
      [] get_filename(path) = "A.info.json" -> "('A.info.json', 1)"
      [] get_filename(path) = "B.info.json" -> "('B.info.json', 1)"
      [] OTHER -> "('C.info.json', 1)"

\* WHERE clause and join of iter_videos_to_download; an empty playlist_ids
\* is falsy, and the query then has no join
WhereDownload(r) == (r.download \/ r.force_redownload) /\ ~r.deleted
Selected(table, pv, playlist_ids, v) ==
    /\ WhereDownload(table[v])
    /\ playlist_ids # {} => \E q \in playlist_ids : <<q, table[v].id>> \in pv

\* The video with db id i
ById(table, i) == CHOOSE v \in DOMAIN table : table[v].id = i

\* The rows of the query, one per id (DISTINCT ON (id)), in the order of the
\* ids
iter_videos_to_download(table, pv, playlist_ids) ==
    LET all == [i \in 1..Cardinality(DOMAIN table) |->
                  [id |-> i, video_id |-> ById(table, i),
                   downloaded_format |-> table[ById(table, i)].downloaded_format,
                   downloaded_filename |-> table[ById(table, i)].downloaded_filename,
                   force_redownload |-> table[ById(table, i)].force_redownload]]
        Test(r) == Selected(table, pv, playlist_ids, r.video_id)
    IN  SelectSeq(all, Test)

\* Video.downloaded
downloaded(row) == row.downloaded_format # NULL

\* The test that ends the download loop
LimitReached_zero_unbounded(max, n) == 0 < max /\ max <= n
LimitReached(max, n) == 0 <= max /\ max <= n

\* UPDATE of update_vid_filename
update_vid_filename_keeps_force(table, filename, downloaded_format, id) ==
    [table EXCEPT ![ById(table, id)] =
        [@ EXCEPT !.downloaded_filename = Coalesce(filename, @),
                  !.downloaded_format = Coalesce(downloaded_format, @)]]
update_vid_filename(table, filename, downloaded_format, id) ==
    [table EXCEPT ![ById(table, id)] =
        [@ EXCEPT !.downloaded_filename = Coalesce(filename, @),
                  !.downloaded_format = Coalesce(downloaded_format, @),
                  !.force_redownload = FALSE]]

\* The format passed to update_vid_filename after a blocked download
BlockedFormat_none(row) == NULL
BlockedFormat(row) == IF row.downloaded_format # NULL THEN NULL ELSE "Video Blocked"

\* SELECT of get_extra_files: the row, or None
get_extra_files(table, id) ==
    IF id \in DOMAIN table
    THEN [found |-> TRUE, thumbnail |-> table[id].thumbnail, info_json |-> table[id].info_json]
    ELSE [found |-> FALSE, thumbnail |-> NULL, info_json |-> NULL]

\* INSERT ... ON CONFLICT (video_id) DO UPDATE of update_extra_files
update_extra_files(table, id, thumbnail, info_json) ==
    [i \in DOMAIN table \cup {id} |->
        IF i # id THEN table[i]
        ELSE IF id \in DOMAIN table
             THEN [thumbnail |-> Coalesce(thumbnail, table[id].thumbnail),
                   info_json |-> Coalesce(info_json, table[id].info_json)]
             ELSE [thumbnail |-> thumbnail, info_json |-> info_json]]

should_delete_any(old_path, new_path) == old_path # NULL
should_delete(old_path, new_path) == old_path # NULL /\ old_path # new_path

should_delete_s3(old_path, new_name) ==
    should_delete(old_path, new_name) /\ get_filename(old_path) = old_path

\* delete_old_file on the file system fs: the files left and the paths
\* passed to os.remove
delete_old_file(fs, old_path, new_path) ==
    IF ~should_delete(old_path, new_path) THEN [files |-> fs, removed |-> <<>>]
    ELSE IF old_path \notin fs THEN [files |-> fs, removed |-> <<>>]
    ELSE [files |-> fs \ {old_path}, removed |-> <<old_path>>]

\* upload_and_delete_file: what it returns and the files left
upload_and_delete_file(fs, filename, up) ==
    IF filename = NULL \/ ~up THEN [ret |-> NULL, files |-> fs]
    ELSE [ret |-> upload_file(filename), files |-> fs \ {filename}]

\* The stored values of the columns in the catalogs the phase starts from
VideoKinds ==
    {[download |-> TRUE, force_redownload |-> FALSE, deleted |-> FALSE,
      downloaded_format |-> NULL, downloaded_filename |-> NULL],
     [download |-> TRUE, force_redownload |-> FALSE, deleted |-> FALSE,
      downloaded_format |-> "mp4", downloaded_filename |-> "data/old.mp4"],
     [download |-> FALSE, force_redownload |-> TRUE, deleted |-> FALSE,
      downloaded_format |-> "mp4", downloaded_filename |-> "data/old.mp4"],
     [download |-> TRUE, force_redownload |-> FALSE, deleted |-> TRUE,
      downloaded_format |-> NULL, downloaded_filename |-> NULL],
     [download |-> FALSE, force_redownload |-> FALSE, deleted |-> FALSE,
      downloaded_format |-> NULL, downloaded_filename |-> NULL]}

StoredRow(v, k) ==
    [id |-> VideoDbId(v), download |-> k.download, force_redownload |-> k.force_redownload,
     deleted |-> k.deleted, downloaded_format |-> k.downloaded_format,
     downloaded_filename |-> k.downloaded_filename]

MaxDownloadsChoices == {-1, 0, 1, 2}

DefaultConfig ==
    [max_downloads_per_run |-> -1, s3_archive |-> FALSE,
     delete_old_info |-> TRUE, delete_old_thumbnail |-> TRUE]

\* Three videos with any stored values, A in P, B in P and Q, C in Q; any
\* set of checked playlists and any max_downloads_per_run
InitSelection ==
    /\ \E k \in [DownloadVideos -> VideoKinds] :
          videos = [v \in DownloadVideos |-> StoredRow(v, k[v])]
    /\ playlistVideos = {<<1, 1>>, <<1, 2>>, <<2, 2>>, <<2, 3>>}
    /\ checked_playlists \in SUBSET AllPlaylistIds
    /\ \E m \in MaxDownloadsChoices : config = [DefaultConfig EXCEPT !.max_downloads_per_run = m]
    /\ s3_up = TRUE
    /\ extra_video_files = (1 :> [thumbnail |-> "data/old.jpg", info_json |-> "data/old.info.json"])
                           @@ (2 :> [thumbnail |-> "data/B.jpg", info_json |-> NULL])
    /\ files = {"data/old.jpg", "data/old.info.json", "data/B.jpg"}

\* One video to download, with any configuration of the deletion of old
\* files and any stored extra files
InitArtifacts ==
    /\ videos = [v \in {"A"} |-> StoredRow(v, CHOOSE k \in VideoKinds :
                                                 k.download /\ ~k.deleted /\ k.downloaded_format = NULL)]
    /\ playlistVideos = {<<1, 1>>}
    /\ checked_playlists = {1}
    /\ \E s3 \in BOOLEAN, di \in BOOLEAN, dt \in BOOLEAN :
          config = [max_downloads_per_run |-> -1, s3_archive |-> s3,
                    delete_old_info |-> di, delete_old_thumbnail |-> dt]
    /\ s3_up \in BOOLEAN
    /\ \/ extra_video_files = EmptyMap
       \/ \E t \in {NULL, "data/A.jpg", "data/old.jpg", "old.jpg", "A.jpg"},
             i \in {NULL, "data/A.info.json", "data/old.info.json"} :
             extra_video_files = (1 :> [thumbnail |-> t, info_json |-> i])
    /\ files \in SUBSET {"data/old.jpg", "data/old.info.json"}

InitDownload ==
    /\ listing = [p \in Playlists |-> {}]
    /\ avail = {}
    /\ playlists = [p \in Playlists |-> [id |-> IF p = "P" THEN 1 ELSE 2, name |-> p]]
    /\ InitSelection \/ InitArtifacts
    /\ tags = EmptyMap
    /\ videoTags = {}
    /\ channels = EmptyMap
    /\ channelVideos = {}
    /\ already_checked = {}
    /\ all_vids = [v \in DOMAIN videos |-> videos[v].id]
    /\ all_vid_ids = DOMAIN videos
    /\ channel_cache = {}
    /\ db_channel_cache = {}
    /\ all_tags = EmptyMap
    /\ threads = <<>>
    /\ pc = "downloads"
    /\ idx = Len(ConfigPlaylists) + 1
    /\ old = {}
    /\ all_items = {}
    /\ retval = "None"
    /\ items = {}
    /\ deleted = {}
    /\ checked_items = {}
    /\ new_deleted = {}
    /\ vid_ids = EmptyMap
    /\ now = 0
    /\ changes = 0
    /\ snap = NoSnap
    /\ prior = {}
    /\ reconciled = {}
    /\ nd_count = [v \in Videos |-> 0]
    /\ in_videos = EmptyMap
    /\ in_channels = EmptyMap
    /\ error = "none"
    /\ committed = db
    /\ in_transaction = FALSE
    /\ AfterIdle
    /\ DrainIdle
    /\ OtherIdle
    /\ downloads = 0
    /\ cursor = <<>>
    /\ handed = <<>>
    /\ removed = <<>>
    /\ delete_files = <<>>

\* What the download phase leaves alone
NotDownload == <<remote, playlists, playlistVideos, tags, videoTags, channels, channelVideos,
                 caches, threads, idx, checked_playlists, locals, changes, snap,
                 nd_count, history, error, txn, after_vars, drain_vars, config, s3_up,
                 other_vars>>

\* 'Downloading videos': the counter is set and the query is sent.  A later
\* run finds the catalog and the files as this one left them
StartDownloads ==
    /\ pc \in {"downloads", "downloads_done"}
    /\ now < MaxDownloadRuns
    /\ now' = now + 1
    /\ downloads' = 0
    /\ delete_files' = <<>>
    /\ cursor' = iter_videos_to_download(videos, playlistVideos, checked_playlists)
    /\ pc' = "download"
    /\ UNCHANGED <<NotDownload, videos, handed, extra_video_files, files, removed>>

\* The row the loop is at
row == Head(cursor)

\* break
DownloadLimitReached ==
    /\ pc = "download"
    /\ cursor # <<>>
    /\ LimitReached(config.max_downloads_per_run, downloads)
    /\ cursor' = <<>>
    /\ pc' = "downloads_done"
    /\ UNCHANGED <<NotDownload, now, videos, downloads, handed, extra_video_files, files,
                   removed, delete_files>>

\* continue: the row is downloaded and not forced
SkipDownloaded ==
    /\ pc = "download"
    /\ cursor # <<>>
    /\ ~LimitReached(config.max_downloads_per_run, downloads)
    /\ ~row.force_redownload /\ downloaded(row)
    /\ cursor' = Tail(cursor)
    /\ UNCHANGED <<NotDownload, pc, now, videos, downloads, handed, extra_video_files,
                   files, removed, delete_files>>

\* The row is handed to download_video
Attempted ==
    /\ pc = "download"
    /\ cursor # <<>>
    /\ ~LimitReached(config.max_downloads_per_run, downloads)
    /\ ~(~row.force_redownload /\ downloaded(row))

\* The entry of handed for the call
Call(result, info) ==
    [video_id |-> row.video_id, run |-> now, result |-> result, row |-> row,
     before |-> videos[row.video_id], info |-> info,
     stored_extras |-> get_extra_files(extra_video_files, row.id), existed |-> files]

\* DownloadInfo.failed()
NoInfo == [filename |-> "", downloaded_format |-> "", thumbnail_path |-> NULL,
           info_path |-> NULL]

\* download_video failed and the failure is not a blocked video
DownloadFailed ==
    /\ Attempted
    /\ handed' = Append(handed, Call("failed", NoInfo))
    /\ downloads' = downloads + 1
    /\ cursor' = Tail(cursor)
    /\ UNCHANGED <<NotDownload, pc, now, videos, extra_video_files, files, removed,
                   delete_files>>

\* download_video failed with a blocked video
DownloadBlocked ==
    /\ Attempted
    /\ handed' = Append(handed, Call("blocked", NoInfo))
    /\ downloads' = downloads + 1
    /\ videos' = update_vid_filename(videos, NULL, BlockedFormat(row), row.id)
    /\ cursor' = Tail(cursor)
    /\ UNCHANGED <<NotDownload, pc, now, extra_video_files, files, removed, delete_files>>

\* What download_video returns for the row on success; the thumbnail path
\* is None when no thumbnail was written
SuccessInfo(thumbnail_path) ==
    [filename |-> NewFile(row.video_id, "video"), downloaded_format |-> "mp4",
     thumbnail_path |-> thumbnail_path, info_path |-> NewFile(row.video_id, "info_json")]

\* old_extras
OldExtras ==
    IF config.delete_old_info \/ config.delete_old_thumbnail
    THEN get_extra_files(extra_video_files, row.id)
    ELSE [found |-> FALSE, thumbnail |-> NULL, info_json |-> NULL]

\* The success branch without s3_archive: [videos, extras, files, removed,
\* delete_files] after it
LocalSuccess(info, fs) ==
    LET old_extras == OldExtras
        d1 == IF old_extras.found /\ config.delete_old_info /\ info.info_path # NULL
              THEN delete_old_file(fs, old_extras.info_json, info.info_path)
              ELSE [files |-> fs, removed |-> <<>>]
        d2 == IF old_extras.found /\ config.delete_old_thumbnail /\ info.thumbnail_path # NULL
              THEN delete_old_file(d1.files, old_extras.thumbnail, info.thumbnail_path)
              ELSE [files |-> d1.files, removed |-> <<>>]
    IN  [videos |-> update_vid_filename(videos, info.filename, info.downloaded_format, row.id),
         extras |-> update_extra_files(extra_video_files, row.id, info.thumbnail_path,
                                       info.info_path),
         files |-> d2.files,
         removed |-> d1.removed \o d2.removed,
         delete_files |-> <<>>]

\* The success branch with s3_archive
S3Success(info, fs) ==
    LET old_extras == OldExtras
        s3_file == upload_and_delete_file(fs, info.filename, s3_up)
        info_file == upload_and_delete_file(s3_file.files, info.info_path, s3_up)
        thumbnail_file == upload_and_delete_file(info_file.files, info.thumbnail_path, s3_up)
        del_info == old_extras.found /\ config.delete_old_info /\ old_extras.info_json # NULL
        del_thumb == old_extras.found /\ config.delete_old_thumbnail
                     /\ old_extras.thumbnail # NULL
        d1 == IF del_info /\ info.info_path # NULL
              THEN delete_old_file(thumbnail_file.files, old_extras.info_json, info.info_path)
              ELSE [files |-> thumbnail_file.files, removed |-> <<>>]
        q1 == IF del_info /\ info_file.ret # NULL
                 /\ should_delete_s3(old_extras.info_json, info_file.ret)
              THEN <<old_extras.info_json>> ELSE <<>>
        d2 == IF del_thumb /\ info.thumbnail_path # NULL
              THEN delete_old_file(d1.files, old_extras.thumbnail, info.thumbnail_path)
              ELSE [files |-> d1.files, removed |-> <<>>]
        q2 == IF del_thumb /\ thumbnail_file.ret # NULL
                 /\ should_delete_s3(old_extras.thumbnail, thumbnail_file.ret)
              THEN <<old_extras.thumbnail>> ELSE <<>>
    IN  [videos |-> update_vid_filename(videos,
                        IF s3_file.ret # NULL THEN s3_file.ret ELSE info.filename,
                        info.downloaded_format, row.id),
         extras |-> update_extra_files(extra_video_files, row.id, thumbnail_file.ret,
                                       info_file.ret),
         files |-> d2.files,
         removed |-> d1.removed \o d2.removed,
         delete_files |-> q1 \o q2]

\* download_video succeeded: the files it wrote exist, the row and the extra
\* files are updated and the old files are deleted
DownloadSucceeded ==
    /\ Attempted
    /\ \E thumbnail_path \in {NULL, NewFile(row.video_id, "thumbnail")} :
          LET info == SuccessInfo(thumbnail_path)
              fs == files \cup ({info.filename, info.info_path, info.thumbnail_path} \ {NULL})
              r == IF config.s3_archive THEN S3Success(info, fs) ELSE LocalSuccess(info, fs)
          IN  /\ handed' = Append(handed, Call("success", info))
              /\ videos' = r.videos
              /\ extra_video_files' = r.extras
              /\ files' = r.files
              /\ removed' = removed \o r.removed
              /\ delete_files' = delete_files \o r.delete_files
    /\ downloads' = downloads + 1
    /\ cursor' = Tail(cursor)
    /\ UNCHANGED <<NotDownload, pc, now>>

\* The rows are used up: conn.commit()
DownloadsDone ==
    /\ pc = "download"
    /\ cursor = <<>>
    /\ pc' = "downloads_done"
    /\ UNCHANGED <<NotDownload, now, videos, downloads, cursor, handed, extra_video_files,
                   files, removed, delete_files>>

NextDownload ==
    \/ StartDownloads
    \/ DownloadLimitReached
    \/ SkipDownloaded
    \/ DownloadFailed
    \/ DownloadBlocked
    \/ DownloadSucceeded
    \/ DownloadsDone

SpecDownload == InitDownload /\ [][NextDownload]_vars

\* ========================================================================
\* Properties
\* ========================================================================
\* The playlist's reconciliation is under way: get_videos succeeded and the
\* loop iteration has not ended
Reconciling == retval = "ok"

\* Steps of the iteration that come after the membership rewrite
AfterRewrite == {"archive", "add_deleted_vids", "add_vid_tags", "get_channels", "after"}
\* Steps of the iteration that come after add_deleted_vids
AfterAddDeleted == {"add_vid_tags", "get_channels", "after"}

\* C1: whenever get_videos succeeded, the three sets it returned (current
\* items, deleted, already checked) are pairwise disjoint and their union is
\* the membership listing fetched for the playlist
C1_Partition ==
    Reconciling =>
        /\ items \cap deleted = {}
        /\ items \cap checked_items = {}
        /\ deleted \cap checked_items = {}
        /\ items \cup deleted \cup checked_items = all_items

\* C1 witness: get_videos returned with a deleted and an already-checked video
C1_Witness ==
    /\ pc = "get_new_deleted"
    /\ deleted # {}
    /\ checked_items # {}
    /\ items \cup deleted \cup checked_items = listing[playlist_id]

\* C2: a step on which get_videos returns None changes no table, no cache,
\* not the set of checked playlists and not the dispatched threads, and
\* moves on to the next configured playlist
C2_FailedFetchSkipsPlaylist ==
    [][(pc = "get_videos" /\ retval' = "None") =>
          /\ db' = db
          /\ caches' = caches
          /\ checked_playlists' = checked_playlists
          /\ threads' = threads
          /\ pc' = "loop"
          /\ idx' = idx + 1]_vars

\* C2 witness: the first playlist was skipped with a non-empty catalog and
\* the second playlist is being reconciled
C2_Witness ==
    /\ idx = 2
    /\ pc = "add_and_update_vids"
    /\ checked_playlists = {}
    /\ threads = <<>>
    /\ playlistVideos # {}
    /\ already_checked = items \cup deleted

\* C3 (as claimed): a run that checked every playlist, started from the
\* catalog a run that checked every playlist left behind with no remote
\* change in between, ends with every table equal to what it started from
C3_Idempotent ==
    (pc = "loop" /\ idx > Len(ConfigPlaylists) /\ snap.valid
        /\ checked_playlists = AllPlaylistIds) => db = snap.db

\* C3 failing input reached: a video listed by a playlist and missing from
\* the detail lookup was inserted as a tombstone by a run that checked every
\* playlist, and has no join row to the playlist that lists it
C3_FirstTombstoneUnlinked ==
    /\ pc = "done"
    /\ snap.valid
    /\ \E p \in Playlists : \E v \in listing[p] \cap DOMAIN videos :
          /\ videos[v].deleted
          /\ <<playlists[p].id, videos[v].id>> \notin playlistVideos

\* C4 (as claimed): no step clears the deleted flag of a video that is absent
\* from the detail lookup, and no step changes a deletion timestamp that is
\* set
C4_Original ==
    [][\A v \in DOMAIN videos :
          /\ (videos[v].deleted /\ v \notin avail) => videos'[v].deleted
          /\ videos[v].deleted_at # NoTime => videos'[v].deleted_at = videos[v].deleted_at]_vars

\* C4 (amended): no step clears the deleted flag or changes the deletion
\* timestamp of a video whose flag is set and that is absent from the detail
\* lookup
C4_DeletionMonotonic ==
    [][\A v \in DOMAIN videos :
          (videos[v].deleted /\ v \notin avail) =>
              /\ videos'[v].deleted
              /\ videos'[v].deleted_at = videos[v].deleted_at]_vars

\* C4 witness: a later run found an already flagged video deleted again, ran
\* add_deleted_vids on it and its timestamp is still the one of the earlier
\* run
C4_Witness ==
    /\ pc = "add_vid_tags"
    /\ \E v \in deleted \ new_deleted :
          /\ v \in DOMAIN videos
          /\ v \notin avail
          /\ videos[v].deleted
          /\ videos[v].deleted_at # NoTime
          /\ videos[v].deleted_at < now

\* A video that was joined to the playlist before this run's writes and is
\* not in the membership listing fetched now
RemovedFromPlaylist(v) ==
    /\ v \in DOMAIN videos
    /\ videos[v].id \in old
    /\ v \notin all_items

\* C5: while a playlist is reconciled, a video removed from it keeps its
\* deleted flag and deletion timestamp and its join rows to other playlists;
\* the membership rewrite removes its join row to this playlist
C5_RemovedOnlyUnlinked ==
    [][Reconciling =>
          \A v \in Videos : RemovedFromPlaylist(v) =>
              /\ videos'[v].deleted = videos[v].deleted
              /\ videos'[v].deleted_at = videos[v].deleted_at
              /\ \A r \in {playlists[p].id : p \in Playlists} \ {playlist_row.id} :
                    (<<r, videos[v].id>> \in playlistVideos') = (<<r, videos[v].id>> \in playlistVideos)
              /\ pc = "update_removed" => <<playlist_row.id, videos[v].id>> \notin playlistVideos']_vars

\* C5 witness: the membership was rewritten; a removed video lost its join
\* row to this playlist, is still joined to another playlist and is not
\* flagged deleted
C5_Witness ==
    /\ pc = "archive"
    /\ \E v \in Videos :
          /\ RemovedFromPlaylist(v)
          /\ ~videos[v].deleted
          /\ <<playlist_row.id, videos[v].id>> \notin playlistVideos
          /\ \E r \in {playlists[p].id : p \in Playlists} \ {playlist_row.id} :
                <<r, videos[v].id>> \in playlistVideos

\* Prior membership [A, B] is recorded for the playlist
C6_PriorAB ==
    /\ Reconciling
    /\ {"A", "B"} \subseteq DOMAIN all_vids
    /\ old = {all_vids["A"], all_vids["B"]}

\* ... the membership listing is [A] and the detail fetch for [A] succeeded
C6_Scenario ==
    /\ C6_PriorAB
    /\ all_items = {"A"}
    /\ "A" \in avail \ checked_items

\* ... the membership listing is still [A, B] and the detail fetch returned A
\* only
C6_MissingFromDetail ==
    /\ C6_PriorAB
    /\ all_items = {"A", "B"}
    /\ "A" \in avail \ checked_items
    /\ "B" \notin avail \cup checked_items

\* C6 (as claimed): with prior membership [A, B], listing [A] and details for
\* [A], current = {A}, deleted = {B} and B is flagged deleted with a fresh
\* deleted_at once add_deleted_vids has run
C6_Original ==
    C6_Scenario =>
        /\ items = {"A"}
        /\ deleted = {"B"}
        /\ pc \in AfterAddDeleted => (videos["B"].deleted /\ videos["B"].deleted_at = now)

\* C6 (amended): with prior membership [A, B], listing [A] and details for
\* [A], current = {A}, deleted = {} and B only loses its join row; when B is
\* still listed and missing from the detail response, current = {A},
\* deleted = {B} and add_deleted_vids flags B deleted, with a fresh deleted_at
\* if B was not flagged before and the old deleted_at otherwise
C6_RemovedIsNotDeleted ==
    [][/\ C6_Scenario =>
            /\ items = {"A"}
            /\ deleted = {}
            /\ videos'["B"].deleted = videos["B"].deleted
            /\ videos'["B"].deleted_at = videos["B"].deleted_at
            /\ pc = "update_removed" => <<playlist_row.id, all_vids["B"]>> \notin playlistVideos'
       /\ C6_MissingFromDetail =>
            /\ items = {"A"}
            /\ deleted = {"B"}
            /\ pc = "add_deleted_vids" =>
                  /\ videos'["B"].deleted
                  /\ videos'["B"].deleted_at = IF videos["B"].deleted
                                               THEN videos["B"].deleted_at ELSE now]_vars

\* C6 witness: prior [A, B], listing [A]: the rewrite removed B's join row and
\* B is not flagged deleted
C6_Witness ==
    /\ C6_Scenario
    /\ pc = "add_vid_tags"
    /\ ~videos["B"].deleted
    /\ <<playlist_row.id, all_vids["B"]>> \notin playlistVideos

\* C6, second case reached: B still listed, missing from the details, flagged
\* by add_deleted_vids in this run
C6_TombstoneReached ==
    /\ C6_MissingFromDetail
    /\ pc = "add_vid_tags"
    /\ "B" \in new_deleted
    /\ videos["B"].deleted_at = now

\* C7: when add_and_update_vids updates an existing video, or add_channels an
\* existing channel, with a null incoming title, thumbnail or name, the
\* stored non-null value of that column stays
C7_Coalesce ==
    [][/\ pc = "direct_videos" =>
             \A v \in DOMAIN in_videos' \cap DOMAIN videos :
                /\ (in_videos'[v].title = NULL /\ videos[v].title # NULL) =>
                       videos'[v].title = videos[v].title
                /\ (in_videos'[v].thumbnail = NULL /\ videos[v].thumbnail # NULL) =>
                       videos'[v].thumbnail = videos[v].thumbnail
       /\ pc = "direct_channels" =>
             \A c \in DOMAIN in_channels' \cap DOMAIN channels :
                /\ (in_channels'[c].name = NULL /\ channels[c].name # NULL) =>
                       channels'[c].name = channels[c].name
                /\ (in_channels'[c].thumbnail = NULL /\ channels[c].thumbnail # NULL) =>
                       channels'[c].thumbnail = channels[c].thumbnail]_vars

\* C7 witness: an existing video was updated with a null title and a null
\* thumbnail and an existing channel with a null name and a null thumbnail,
\* and all four stored values are there
C7_Witness ==
    /\ pc = "direct_done"
    /\ in_videos["A"].title = NULL
    /\ in_videos["A"].thumbnail = NULL
    /\ videos["A"].title = "title"
    /\ videos["A"].thumbnail = "thumb"
    /\ in_channels["ch1"].name = NULL
    /\ in_channels["ch1"].thumbnail = NULL
    /\ channels["ch1"].name = "name"
    /\ channels["ch1"].thumbnail = "cthumb"

\* C8: the join-row inserts of add_playlist_vids, add_vid_tags and
\* add_channel_videos raise no error, also for pairs already joined, and
\* every pair given to add_playlist_vids is joined afterwards
C8_LinkInsertIdempotent ==
    [][/\ pc = "add_playlist_vids" =>
            /\ pc' # "crashed"
            /\ \A i \in Range(vid_ids) : <<playlist_row.id, i>> \in playlistVideos'
            /\ Cardinality(playlistVideos') =
                  Cardinality(playlistVideos \cup {<<playlist_row.id, i>> : i \in Range(vid_ids)})
       /\ pc = "add_vid_tags" => pc' # "crashed"
       /\ (pc = "get_channels" /\ (uncached = {} \/ channel_cache' # channel_cache)) =>
              pc' # "crashed"]_vars

\* C8 witness: add_playlist_vids was given a pair that was joined already and
\* the pair is joined
C8_Witness ==
    /\ pc = "archive"
    /\ \E i \in old \cap Range(vid_ids) : <<playlist_row.id, i>> \in playlistVideos
    /\ videoTags # {}
    /\ channelVideos # {}

\* C9: while a video stays absent from the detail lookup it is listed in the
\* new_deleted of at most one dispatched payload, and new_deleted is the
\* videos of deleted whose row had deleted = FALSE before the playlist's
\* writes
C9_DeletionReportedOnce ==
    [][/\ \A v \in Videos : nd_count'[v] <= 1
       /\ pc = "get_new_deleted" =>
             new_deleted' \subseteq {v \in deleted : v \in DOMAIN videos /\ ~videos[v].deleted}
       /\ (pc = "after" /\ HasAfter[playlist_id]) =>
             threads'[Len(threads')].new_deleted = new_deleted]_vars

\* C9 witness: a video was reported in a payload of an earlier run, is still
\* absent, and a later run reconciled it as deleted again without reporting it
C9_Witness ==
    /\ pc = "after"
    /\ \E v \in deleted \ new_deleted :
          /\ nd_count[v] = 1
          /\ v \notin avail
          /\ \A i \in 1..Len(threads) : v \notin threads[i].new_deleted

\* C10 (as claimed): the payload of a playlist lists as new every available
\* video of its listing that was not joined to it before this run's writes
\* and that was joined to another playlist when the run started
C10_NewForPlaylist ==
    [][(pc = "after" /\ HasAfter[playlist_id]) =>
          \A v \in all_items \cap avail \cap DOMAIN videos :
              (/\ videos[v].id \notin old
               /\ \E r \in {playlists[p].id : p \in Playlists} \ {playlist_row.id} :
                     <<r, videos[v].id>> \in prior)
              => v \in threads'[Len(threads')].new]_vars

\* C11: a storage write failure during one playlist's reconciliation does
\* not end the run: the following playlists are still reconciled and the run
\* goes on to the download phase and to completion
C11_StorageFailureSkipsPlaylist ==
    ~(pc = "crashed" /\ error = "psycopg.Error")

\* C12: a failure of the channel detail fetch is caught: the playlist's
\* reconciliation is not aborted and the run goes on with the next playlist
C12_ChannelFetchFailureCaught ==
    ~(pc = "crashed" /\ error = "TypeError")

\* C13: a script that fails does not keep the scripts after it, of the same
\* playlist or of another one, from being run: once a thread has ended, its
\* loop got to every script it was given
C13_FailedActionIsolated ==
    \A t \in DOMAIN thread_state :
        thread_state[t] # "running" =>
            \A i \in 1..Len(after[t]) : <<t, i>> \in attempted

\* C14: the wait takes at most 15 minutes, and the process takes the forced
\* exit only when a thread does not end within 15 minutes of the start of
\* the wait
C14_GlobalDeadline ==
    /\ clock <= JoinSeconds
    /\ exit_path = "exit" => \E t \in DOMAIN finish_at : finish_at[t] > JoinSeconds

\* Every thread ends within the time T, and T is less than a fifth of the
\* 15 minutes
AllFinishWithin(T) ==
    /\ T * 5 < JoinSeconds
    /\ \A t \in DOMAIN finish_at : finish_at[t] <= T

\* C15: when every thread ends within a time T much shorter than the
\* deadline, the wait is over no later than T and check_all returns without
\* the forced exit
C15_EarlyFinishReturns ==
    \A T \in FinishTimes :
        AllFinishWithin(T) =>
            /\ clock <= T
            /\ exit_path # "exit"

AllHanded == {handed[i] : i \in DOMAIN handed}

\* C16: every video handed to download_video has a download intent, is not
\* deleted and belongs to a playlist checked in this run, and is handed over
\* at most once in the run; no video is handed over when no playlist was
\* checked
C16_SelectionOfCheckedPlaylists ==
    /\ \A c \in AllHanded :
          /\ (c.before.download \/ c.before.force_redownload) /\ ~c.before.deleted
          /\ \E q \in checked_playlists : <<q, c.row.id>> \in playlistVideos
    /\ \A i, j \in DOMAIN handed :
          (i # j /\ handed[i].run = handed[j].run) => handed[i].video_id # handed[j].video_id
    /\ checked_playlists = {} => handed = <<>>

\* The calls of download_video made in the current run
HandedThisRun == {c \in AllHanded : c.run = now}

\* A video the query of this run selects and the loop would hand over, that
\* was not handed over in this run
Unreached(v) ==
    /\ Selected(videos, playlistVideos, checked_playlists, v)
    /\ videos[v].force_redownload \/ videos[v].downloaded_format = NULL
    /\ \A c \in HandedThisRun : c.video_id # v

C17_AtMostMax ==
    /\ config.max_downloads_per_run >= 0 =>
          Cardinality(HandedThisRun) <= config.max_downloads_per_run
    /\ (pc = "downloads_done" /\ \E v \in DOMAIN videos : Unreached(v)) =>
          /\ config.max_downloads_per_run >= 0
          /\ Cardinality(HandedThisRun) = config.max_downloads_per_run

C17_OnlyHandedRowsChange ==
    \A v \in DOMAIN videos :
        videos'[v] # videos[v] =>
            /\ Len(handed') = Len(handed) + 1
            /\ handed'[Len(handed')].video_id = v

\* C17: with max_downloads_per_run M >= 0 at most M calls of download_video
\* are made in a run, failed ones counted, and exactly M when more videos
\* than that are eligible; with M < 0 every eligible video is handed over;
\* the row of a video that was not handed over is not changed
C17_MaxDownloadsPerRun ==
    []C17_AtMostMax /\ [][C17_OnlyHandedRowsChange]_vars

\* Two calls were made with max_downloads_per_run = 2 and a third eligible
\* video is left for the next run
C17_Witness ==
    /\ pc = "downloads_done"
    /\ config.max_downloads_per_run = 2
    /\ Cardinality(HandedThisRun) = 2
    /\ \E c \in HandedThisRun : c.result = "failed"
    /\ \E v \in DOMAIN videos : Unreached(v) /\ videos[v].download

\* C18: no row with downloaded_format set and force_redownload false is
\* handed to download_video; after a successful download the row has
\* downloaded_format set and force_redownload false, and no later run hands
\* the video over again
C18_NoRedownload ==
    /\ \A c \in AllHanded :
          /\ ~(c.before.downloaded_format # NULL /\ ~c.before.force_redownload)
          /\ c.result = "success" =>
                /\ videos[c.video_id].downloaded_format # NULL
                /\ ~videos[c.video_id].force_redownload
    /\ \A i, j \in DOMAIN handed :
          (i < j /\ handed[i].video_id = handed[j].video_id) => handed[i].result # "success"

\* A forced re-download succeeded in the first run and the second run is over
C18_Witness ==
    /\ now = 2
    /\ pc = "downloads_done"
    /\ \E c \in AllHanded :
          c.run = 1 /\ c.result = "success" /\ c.before.force_redownload
          /\ Selected(videos, playlistVideos, checked_playlists, c.video_id) = FALSE

\* The last call made for the video of call i
IsLastCall(i) == \A j \in DOMAIN handed : j > i => handed[j].video_id # handed[i].video_id

OldPath(c, kind) == IF kind = "thumbnail" THEN c.stored_extras.thumbnail
                    ELSE c.stored_extras.info_json
NewPath(c, kind) == IF kind = "thumbnail" THEN c.info.thumbnail_path ELSE c.info.info_path
DeleteOld(kind) == IF kind = "thumbnail" THEN config.delete_old_thumbnail
                   ELSE config.delete_old_info
ExtraKinds == {"thumbnail", "info_json"}

\* C20: os.remove is called for an old file only after a successful
\* download whose stored path of the kind is not null and differs from the
\* new path, never for a null path or for the path of the new file, and it
\* is called exactly once for an old file that is there when the paths differ
C20_SelfDeleteGuard ==
    /\ \A n \in DOMAIN removed :
          \E c \in AllHanded, kind \in ExtraKinds :
              /\ c.result = "success"
              /\ DeleteOld(kind)
              /\ OldPath(c, kind) = removed[n]
              /\ removed[n] # NULL
              /\ removed[n] # NewPath(c, kind)
    /\ \A n, m \in DOMAIN removed : n # m => removed[n] # removed[m]
    /\ \A c \in AllHanded, kind \in ExtraKinds :
          (/\ c.result = "success"
           /\ DeleteOld(kind)
           /\ c.stored_extras.found
           /\ OldPath(c, kind) # NULL
           /\ NewPath(c, kind) # NULL
           /\ OldPath(c, kind) # NewPath(c, kind)
           /\ OldPath(c, kind) \in c.existed)
          => \E n \in DOMAIN removed : removed[n] = OldPath(c, kind)

\* old.jpg was removed once after a download that wrote another thumbnail,
\* and a download that wrote the thumbnail at its stored path removed nothing
C20_Witness ==
    /\ \E c \in AllHanded :
          /\ c.result = "success"
          /\ c.stored_extras.thumbnail = "data/old.jpg"
          /\ c.info.thumbnail_path = "data/A.jpg"
          /\ \E n \in DOMAIN removed : removed[n] = "data/old.jpg"
    /\ \E c \in AllHanded :
          /\ c.result = "success"
          /\ c.stored_extras.thumbnail = "data/B.jpg"
          /\ c.info.thumbnail_path = "data/B.jpg"
          /\ "data/B.jpg" \in files
\* ------------------------------------------------------------------------
\* Payloads handed to the scripts
\* ------------------------------------------------------------------------
\* The keys a script that declares the fields rf must receive
ExpectedKeys(rf) == BaseFields \cup (IF rf = {} THEN ScriptDataField ELSE rf)

\* C21: a script that declares required fields receives the base fields
\* plus exactly the declared fields among new, deleted and new_deleted, with
\* the values of the payload; a script that declares none receives the base
\* fields plus all three
C21_PayloadFieldFiltering ==
    \A w \in stdin :
        /\ DOMAIN w.data = ExpectedKeys(required_fields[w.thread][w.index])
        /\ \A k \in DOMAIN w.data \cap ScriptDataField : w.data[k] = threads[w.thread][k]
        /\ w.data["playlist_id"] = threads[w.thread].playlist_id
        /\ w.data["playlist_name"] = threads[w.thread].playlist_name

\* A script that declared only new_deleted and one that declared nothing
\* were both given their data
C21_Witness ==
    /\ \E w \in stdin : required_fields[w.thread][w.index] = {"new_deleted"}
    /\ \E w \in stdin : required_fields[w.thread][w.index] = {}
\* No thread can take a step any more
ThreadsQuiet == \A t \in DOMAIN thread_state : thread_state[t] # "running"

\* C23: every script is its own concurrent unit: once nothing can move any
\* more, every script of every thread that did not raise was attempted, also
\* the scripts configured after one that never ends
C23_ActionsIndependent ==
    ThreadsQuiet =>
        \A t \in DOMAIN after : \A i \in 1..Len(after[t]) :
            thread_state[t] # "raised" => <<t, i>> \in attempted
\* What a script was given is what the main thread put into the payload of
\* its thread
C22_DataIsPayload ==
    \A w \in stdin :
        \A k \in DOMAIN w.data \cap ScriptDataField : w.data[k] = threads[w.thread][k]

\* A step of a thread leaves the catalog and the caches alone, and no step
\* changes the payload of a thread that was started
C22_StepIsolation ==
    /\ \A t \in DOMAIN threads : t \in DOMAIN threads' /\ threads'[t] = threads[t]
    /\ (Len(thread_state') = Len(thread_state) /\ after_vars' # after_vars)
          => UNCHANGED <<db, caches>>

\* C22: the threads act only on the payload the main thread computed before
\* they were started: they neither read nor write the catalog or the
\* caches, and what the main thread does afterwards does not change the
\* payload
C22_WorkersIsolated == []C22_DataIsPayload /\ [][C22_StepIsolation]_vars

\* The script of the first playlist was given its data while the main
\* thread was at the second playlist, whose deleted videos are others
C22_Witness ==
    /\ pc = "after"
    /\ idx = 2
    /\ \E w \in stdin : w.thread = 1 /\ w.data["deleted"] # deleted
\* ------------------------------------------------------------------------
\* Membership rewrite and the order of the catalog steps
\* ------------------------------------------------------------------------
\* The videos get_videos put into one of its three sets for the playlist
\* being reconciled
Union == items \cup deleted \cup checked_items

\* C24: once a playlist is reconciled, its join rows are exactly the
\* internal ids of current, deleted and already-checked videos, the deleted
\* videos that had no row before this run included
C24_MembershipRewrite ==
    pc = "after" =>
        /\ Union \subseteq DOMAIN videos
        /\ get_playlist_video_ids(playlistVideos, playlist_row.id)
              = {videos[v].id : v \in Union}
\* C25: the catalog steps of one playlist run in the listed order; the
\* deleted videos have their tombstone (a row with deleted set) before the
\* internal ids are resolved and the join rows are rewritten
C25_TombstonesBeforeMembership ==
    pc \in {"update_removed", "add_playlist_vids"} =>
        \A v \in deleted : v \in DOMAIN videos /\ videos[v].deleted
\* ------------------------------------------------------------------------
\* Already-checked videos and the lists of the payload
\* ------------------------------------------------------------------------
\* C27: a video id of the already-checked set is not in the detail request
\* and comes back in the already-checked output, never as current or
\* deleted; and no current or deleted video of a playlist reconciled in
\* this run is in the detail request of a later playlist of the run
C27_AlreadyCheckedMemoization ==
    /\ pc = "get_videos" =>
          /\ RequestedItems(listing[playlist_id], already_checked) \cap already_checked = {}
          /\ RequestedItems(listing[playlist_id], already_checked) \cap reconciled = {}
    /\ pc = "get_new_deleted" =>
          /\ checked_items = all_items \cap already_checked
          /\ items \cap already_checked = {}
          /\ deleted \cap already_checked = {}

\* The second playlist lists a video the first playlist had as current or
\* deleted together with one that was not checked yet
C27_Witness ==
    /\ pc = "get_new_deleted"
    /\ idx = 2
    /\ checked_items # {}
    /\ checked_items \subseteq reconciled
    /\ items # {}

\* The videos that had a join row to the playlist when the run started
PriorMembers(p) == {v \in DOMAIN videos : <<playlists[p].id, videos[v].id>> \in prior}

\* C28: the new list of a payload is the current set minus the videos that
\* were members of the playlist before this run's membership rewrite
C28_NewIsCurrentMinusPrior ==
    [][(pc = "after" /\ HasAfter[playlist_id]) =>
          threads'[Len(threads')].new = items \ PriorMembers(playlist_id)]_vars

\* The payload of the first playlist lists B as new and not A, which is
\* still in the playlist and was a member before
C28_Witness ==
    /\ Len(threads) >= 1
    /\ threads[1].playlist_id = "P"
    /\ threads[1].new = {"B"}
    /\ "A" \in listing["P"] \cap avail
    /\ "A" \in PriorMembers("P")

\* C29: in every payload new is disjoint from deleted and from new_deleted,
\* and new_deleted is a subset of deleted
C29_NewDeletedExclusive ==
    \A t \in DOMAIN threads :
        /\ threads[t].new \cap threads[t].deleted = {}
        /\ threads[t].new \cap threads[t].new_deleted = {}
        /\ threads[t].new_deleted \subseteq threads[t].deleted

\* A payload with a new video and a newly deleted one
C29_Witness ==
    \E t \in DOMAIN threads :
        /\ threads[t].new # {}
        /\ threads[t].new_deleted # {}

\* The videos joined to playlist p
Members(p) == {v \in DOMAIN videos : <<playlists[p].id, videos[v].id>> \in playlistVideos}

\* Once an archive playlist is reconciled its members have download set, and
\* the step applied again changes nothing
C30_ArchiveMembersFlagged ==
    (pc = "after" /\ Archive[playlist_id]) =>
        /\ \A v \in Members(playlist_id) : videos[v].download
        /\ update_archived_playlist_videos(videos, playlistVideos, playlist_row.id) = videos

\* No step sets download back to FALSE
C30_DownloadNeverCleared ==
    \A v \in DOMAIN videos : videos[v].download => (v \in DOMAIN videos' /\ videos'[v].download)

\* C30: after an archive playlist is reconciled every video joined to it
\* has download = TRUE, the step is idempotent, and download is never set
\* back to FALSE
C30_ArchiveFlag == []C30_ArchiveMembersFlagged /\ [][C30_DownloadNeverCleared]_vars

\* The archive playlist is reconciled with a member that is deleted and one
\* that is not
C30_Witness ==
    /\ pc = "after"
    /\ Archive[playlist_id]
    /\ \E v \in Members(playlist_id) : videos[v].deleted
    /\ \E v \in Members(playlist_id) : ~videos[v].deleted
\* ------------------------------------------------------------------------
\* Commits
\* ------------------------------------------------------------------------
\* C26: the writes of a playlist are committed unit by unit: when the
\* rewrite of the join rows fails and is rolled back, the rows of videos are
\* as the upsert made just before left them
C26_EarlierUnitsDurable ==
    [][(pc = "update_removed" /\ pc' = "crashed") => videos' = videos]_vars

\* C31: add_vid_tags called with default tags links every default tag to
\* every video of the videos parameter that has a catalog id, the videos
\* without tags of their own included, and links each video's own tags
\* lower-cased.
C31_DefaultTagsLinked ==
    [][DirectAddVidTags =>
          \A v \in DOMAIN in_videos' \cap DOMAIN all_vids :
             /\ \A t \in in_default_tags' :
                   \E k \in {t, Lower(t)} \cap DOMAIN tags' :
                      <<tags'[k], all_vids[v]>> \in videoTags'
             /\ \A t \in in_videos'[v].tags :
                   /\ Lower(t) \in DOMAIN tags'
                   /\ <<tags'[Lower(t)], all_vids[v]>> \in videoTags']_vars

\* The script of thread t is given the field f: it declares f or declares
\* no required fields
Needs(t, f) ==
    \E i \in 1..Len(required_fields[t]) :
        required_fields[t][i] = {} \/ f \in required_fields[t][i]

\* C32: the SELECT of get_deleted_info is executed for a playlist only if
\* one of the playlist's scripts is given the deleted videos (it declares
\* the field or declares no required fields).
C32_LazyDeletedInfo ==
    \A t \in DOMAIN threads :
        threads[t].playlist_id \in info_queries => Needs(t, "deleted")

\* C33: an old key is collected for deletion from the bucket only after a
\* successful download whose new file of the kind was uploaded, when the
\* stored key is not null, is not the key of the new object and has no
\* directory in it.
C33_RemoteDeletionGuard ==
    \A n \in DOMAIN delete_files :
        \E c \in AllHanded, kind \in ExtraKinds :
            /\ c.result = "success"
            /\ DeleteOld(kind)
            /\ s3_up
            /\ NewPath(c, kind) # NULL
            /\ OldPath(c, kind) = delete_files[n]
            /\ delete_files[n] # NULL
            /\ delete_files[n] # get_filename(NewPath(c, kind))
            /\ get_filename(delete_files[n]) = delete_files[n]

\* C34: within one call of bulk_download_thumbnails no more than CHUNK_SIZE
\* requests are made without a sleep between them.
C34_RateLimit == unslept <= CHUNK_SIZE

\* C39: download_thumbnail leaves a file at the path only when the request
\* succeeded, and returns True on success, False on failure and None when
\* the file was there already.
C39_FileOnlyOnSuccess ==
    [][BulkStep =>
          /\ request' = "failed" =>
                /\ bulk_pos \notin thumbnail_files'
                /\ bulk_res' = "False"
          /\ request' = "ok" =>
                /\ bulk_pos \in thumbnail_files'
                /\ bulk_res' = "True"
          /\ (HasUrl(bulk_pos) /\ bulk_pos \in thumbnail_files) => bulk_res' = "None"]_vars

\* C35: playlist_items returns None or the listing of the whole playlist,
\* never a listing that lacks items of the playlist.
C35_CompleteOrNone ==
    api_ret = "js" => api_items = TotalItems

\* C36: when the loop comes to a configured playlist without a row, the run
\* does not fail: either the playlist is skipped (its info could not be
\* fetched) or a row is inserted for it.
C36_NewPlaylistHandled ==
    [][(/\ pc = "loop"
        /\ idx <= Len(ConfigPlaylists)
        /\ playlist_id \notin DOMAIN playlists)
          => /\ pc' # "crashed"
             /\ idx' = idx + 1 \/ playlist_id \in DOMAIN playlists']_vars

\* C37: when add_and_update_vids updates a video stored as a tombstone
\* (placeholder title, null description, deleted set) with a non-null
\* incoming title and description, the row gets the incoming title and
\* description and its deleted flag is cleared.
C37_TombstoneRevived ==
    [][pc = "direct_videos" =>
          \A v \in DOMAIN in_videos' \cap DOMAIN videos :
             (/\ videos[v].deleted
              /\ videos[v].title = "Deleted video"
              /\ videos[v].description = NULL
              /\ in_videos'[v].title # NULL
              /\ in_videos'[v].description # NULL)
                => /\ videos'[v].title = in_videos'[v].title
                   /\ videos'[v].description = in_videos'[v].description
                   /\ ~videos'[v].deleted]_vars

\* The videos the INSERT of add_and_update_vids or of add_deleted_vids is
\* about to be given: those of its argument that are not in the id cache
DoInsert ==
    CASE pc = "add_and_update_vids" -> items \ all_vid_ids
      [] pc = "add_deleted_vids" -> deleted \ all_vid_ids
      [] OTHER -> {}

\* No INSERT is given a video that has a row
C38_InsertsAreNew == DoInsert \cap DOMAIN videos = {}

\* A video that has a row keeps it and its internal id, and neither function
\* ends with a violation of the uniqueness constraint
C38_IdsStable ==
    /\ \A v \in DOMAIN videos : v \in DOMAIN videos' /\ videos'[v].id = videos[v].id
    /\ pc \in {"add_and_update_vids", "add_deleted_vids"} => pc' # "crashed"

\* C38: with the id caches loaded from the catalog at the start of a run,
\* add_and_update_vids and add_deleted_vids never try to INSERT a video that
\* has a row, first-time tombstones included, so the uniqueness constraint
\* is not violated and every video keeps its internal id.
C38_NoDuplicateInsert == []C38_InsertsAreNew /\ [][C38_IdsStable]_vars

\* The second playlist lists a video whose tombstone the first playlist of
\* this run inserted: the video has a row, is not in the id cache and is
\* among the already checked videos, not among those to insert
C38_Witness ==
    /\ pc = "add_and_update_vids"
    /\ idx = 2
    /\ \E v \in checked_items :
          /\ v \in DOMAIN videos
          /\ v \notin all_vid_ids
          /\ videos[v].deleted_at = now

\* C40: of the instances of run.py started in one directory, at most one is
\* in check_all at any time.
C40_MutualExclusion ==
    \A p, q \in DOMAIN lpc : (lpc[p] = "check_all" /\ lpc[q] = "check_all") => p = q
====
